---- MODULE Spec2Model ----
(***************************************************************************)
(* State-machine model of the RTE Tempo API client                         *)
(* (custom_components/rtetempo/api/client.py, api/auth.py): the retrying   *)
(* fetch async_get_tempo_data, its circuit breaker, the HTTP status        *)
(* mapping and the OAuth2 token cache it draws its bearer token from.      *)
(*                                                                         *)
(* One action is one run of the coroutine between two suspension points    *)
(* (an awaited network request or an awaited sleep).  Monotonic time is    *)
(* the variable now, in seconds.                                           *)
(***************************************************************************)
EXTENDS Integers, Sequences, FiniteSets, TLC

\* ------------------------------------------------------------------------
\* Program constants
\* ------------------------------------------------------------------------

MAX_RETRIES == 3

BACKOFF_BASE == 1

CB_FAILURE_THRESHOLD == 5

CB_RECOVERY_TIMEOUT == 300

TOKEN_EXPIRY_MARGIN == 60

DEFAULT_EXPIRES_IN == 3600

\* ------------------------------------------------------------------------
\* Bounds of the model
\* ------------------------------------------------------------------------

\* The monotonic clock stops advancing at MaxTime.
MaxTime == 600

\* The remote fails (an error status, a transport failure, a bad body) at most
\* MaxFaults times in a run; every other answer is a success.
MaxFaults == 6

\* Longest Retry-After header value (in characters) the remote sends.
MaxHeaderLen == 2

\* Largest HTTP status enumerated by the status-mapping specification.
MaxStatus == 601

\* Amounts by which the clock advances while the coroutine is suspended.
TickSteps == {CB_RECOVERY_TIMEOUT - 1, CB_RECOVERY_TIMEOUT}

\* ------------------------------------------------------------------------
\* Values
\* ------------------------------------------------------------------------

\* Optional values: <<>> is None, <<v>> is the value v.
None == <<>>

Some(v) == <<v>>

IsNone(o) == o = <<>>

Max(a, b) == IF a >= b THEN a ELSE b

\* _CircuitState
CLOSED == "closed"

OPEN == "open"

HALF_OPEN == "half_open"

\* Exception classes of api/exceptions.py (and the built-ins that escape).
AuthError == "RTETempoAuthError"

ConnectionError == "RTETempoConnectionError"

ClientError == "RTETempoClientError"

RateLimitError == "RTETempoRateLimitError"

ServerError == "RTETempoServerError"

BaseError == "RTETempoError"

KeyError == "KeyError"

ValueError == "ValueError"

\* An exception instance: its class, its payload attributes, and the fixed
\* prefix of its message.
Exc(kind, status_code, retry_after, msg) ==
    [kind |-> kind, status_code |-> status_code, retry_after |-> retry_after, msg |-> msg]

NoErr == Exc("None", None, None, "")

RTETempoAuthError(msg) == Exc(AuthError, None, None, msg)

RTETempoConnectionError(msg) == Exc(ConnectionError, None, None, msg)

RTETempoClientError(status_code) == Exc(ClientError, Some(status_code), None, "HTTP")

RTETempoServerError(status_code) == Exc(ServerError, Some(status_code), None, "HTTP")

RTETempoRateLimitError(retry_after) ==
    Exc(RateLimitError, None, retry_after, "Rate limited (HTTP 429)")

RTETempoError(msg) == Exc(BaseError, None, None, msg)

\* ------------------------------------------------------------------------
\* float(): a header value is a sequence of characters
\* ------------------------------------------------------------------------

HeaderChars == {"0", "2", "-", "x"}

DigitValue(c) == CASE c = "0" -> 0 [] c = "2" -> 2 [] OTHER -> -1

IsDigit(c) == DigitValue(c) >= 0

RECURSIVE DigitsValue(_)
DigitsValue(s) ==
    IF s = <<>> THEN 0 ELSE 10 * DigitsValue(SubSeq(s, 1, Len(s) - 1)) + DigitValue(s[Len(s)])

AllDigits(s) == Len(s) > 0 /\ \A i \in 1..Len(s) : IsDigit(s[i])

\* float(s): None stands for ValueError; an optional sign, then digits.
ParseFloat(s) ==
    IF AllDigits(s) THEN Some(DigitsValue(s))
    ELSE IF Len(s) > 1 /\ s[1] = "-" /\ AllDigits(Tail(s)) THEN Some(0 - DigitsValue(Tail(s)))
    ELSE None

\* ------------------------------------------------------------------------
\* RTETempoClient._check_response_status
\* ------------------------------------------------------------------------

\* retry_after is resp.headers.get("Retry-After"): None or Some(string).
RetryAfterValue(retry_after) ==
    IF IsNone(retry_after) \/ retry_after[1] = <<>> THEN None
    ELSE ParseFloat(retry_after[1])

\* NoErr when the function returns, the raised exception otherwise.
CheckResponseStatus(status, retry_after) ==
    IF status = 200 THEN NoErr
    ELSE IF status = 429 THEN RTETempoRateLimitError(RetryAfterValue(retry_after))
    ELSE IF status = 401 THEN RTETempoAuthError("Unauthorized (HTTP 401)")
    ELSE IF 400 <= status /\ status < 500 THEN RTETempoClientError(status)
    ELSE IF status >= 500 THEN RTETempoServerError(status)
    ELSE RTETempoError("Unexpected HTTP")

\* ------------------------------------------------------------------------
\* Circuit breaker (RTETempoClient._check_circuit_breaker, _cb_on_success,
\* _cb_on_failure).  cb is the record of the three _cb_* fields.
\* ------------------------------------------------------------------------

CircuitBreaker(state, failure_count, last_failure) ==
    [state |-> state, failure_count |-> failure_count, last_failure |-> last_failure]

CircuitOpenMessage == "Circuit breaker is open"

\* Variant: a rejected call is recorded as a failure time.
CheckCircuitBreakerTouching(cb, t) ==
    IF cb.state = OPEN
    THEN IF t - cb.last_failure >= CB_RECOVERY_TIMEOUT
         THEN [cb |-> [cb EXCEPT !.state = HALF_OPEN], raised |-> NoErr]
         ELSE [cb |-> [cb EXCEPT !.last_failure = t],
               raised |-> RTETempoConnectionError(CircuitOpenMessage)]
    ELSE [cb |-> cb, raised |-> NoErr]

\* Variant: the cooldown is taken one second short.
CheckCircuitBreakerEarly(cb, t) ==
    IF cb.state = OPEN
    THEN IF t - cb.last_failure >= CB_RECOVERY_TIMEOUT - 1
         THEN [cb |-> [cb EXCEPT !.state = HALF_OPEN], raised |-> NoErr]
         ELSE [cb |-> cb, raised |-> RTETempoConnectionError(CircuitOpenMessage)]
    ELSE [cb |-> cb, raised |-> NoErr]

\* Variant: the cooldown must be exceeded, not reached.
CheckCircuitBreakerStrict(cb, t) ==
    IF cb.state = OPEN
    THEN IF t - cb.last_failure > CB_RECOVERY_TIMEOUT
         THEN [cb |-> [cb EXCEPT !.state = HALF_OPEN], raised |-> NoErr]
         ELSE [cb |-> cb, raised |-> RTETempoConnectionError(CircuitOpenMessage)]
    ELSE [cb |-> cb, raised |-> NoErr]

\* Variant: the rejection reuses the message of a failed request.
CheckCircuitBreakerSameMessage(cb, t) ==
    IF cb.state = OPEN
    THEN IF t - cb.last_failure >= CB_RECOVERY_TIMEOUT
         THEN [cb |-> [cb EXCEPT !.state = HALF_OPEN], raised |-> NoErr]
         ELSE [cb |-> cb, raised |-> RTETempoConnectionError("Connection error")]
    ELSE [cb |-> cb, raised |-> NoErr]

\* The gate at time t: the breaker after it, and what it raises (NoErr: nothing).
CheckCircuitBreaker(cb, t) ==
    IF cb.state = OPEN
    THEN IF t - cb.last_failure >= CB_RECOVERY_TIMEOUT
         THEN [cb |-> [cb EXCEPT !.state = HALF_OPEN], raised |-> NoErr]
         ELSE [cb |-> cb, raised |-> RTETempoConnectionError(CircuitOpenMessage)]
    ELSE [cb |-> cb, raised |-> NoErr]

\* Variant: the state is closed but the counter is kept.
CbOnSuccessKeepingCount(cb) == [cb EXCEPT !.state = CLOSED]

CbOnSuccess(cb) == [cb EXCEPT !.state = CLOSED, !.failure_count = 0]

\* Variant: the threshold must be exceeded, not reached.
CbOnFailureStrict(cb, t) ==
    LET count == cb.failure_count + 1
    IN  CircuitBreaker(IF count > CB_FAILURE_THRESHOLD THEN OPEN ELSE cb.state, count, t)

\* Variant: only a closed breaker is opened.
CbOnFailureFromClosed(cb, t) ==
    LET count == cb.failure_count + 1
    IN  CircuitBreaker(IF count >= CB_FAILURE_THRESHOLD /\ cb.state = CLOSED THEN OPEN ELSE cb.state,
                       count, t)

CbOnFailure(cb, t) ==
    LET count == cb.failure_count + 1
    IN  CircuitBreaker(IF count >= CB_FAILURE_THRESHOLD THEN OPEN ELSE cb.state, count, t)

\* ------------------------------------------------------------------------
\* Retry loop of RTETempoClient.async_get_tempo_data
\* ------------------------------------------------------------------------

RetryableKinds == {ServerError, RateLimitError, ConnectionError}

NonRetryableKinds == {AuthError, ClientError}

\* Variant: every HTTP error class but the authentication error is retried.
ExceptClauseRetryingClientError(err) ==
    IF err.kind \in RetryableKinds \cup {ClientError} THEN "retry"
    ELSE IF err.kind \in NonRetryableKinds THEN "raise"
    ELSE "uncaught"

\* Variant: a lookup error of the parser is taken by the non-retryable clause.
ExceptClauseCountingKeyError(err) ==
    IF err.kind \in RetryableKinds THEN "retry"
    ELSE IF err.kind \in NonRetryableKinds \cup {KeyError} THEN "raise"
    ELSE "uncaught"

\* Variant: an authentication error is retried like a connection error.
ExceptClauseRetryingAuthError(err) ==
    IF err.kind \in RetryableKinds \cup {AuthError} THEN "retry"
    ELSE IF err.kind \in NonRetryableKinds THEN "raise"
    ELSE "uncaught"

\* Which except clause takes an exception raised inside the try block.
ExceptClause(err) ==
    IF err.kind \in RetryableKinds THEN "retry"
    ELSE IF err.kind \in NonRetryableKinds THEN "raise"
    ELSE "uncaught"

\* Variant: only the first error is kept.
AssignLastErrOnce(last_err, err) == IF last_err = NoErr THEN err ELSE last_err

\* last_err = err
AssignLastErr(last_err, err) == err

\* Variant: a sleep follows every failed attempt, the last one included.
SleepsAfterEvery(attempt) == attempt < MAX_RETRIES

\* if attempt < _MAX_RETRIES - 1: ... await asyncio.sleep(wait)
SleepsAfter(attempt) == attempt < MAX_RETRIES - 1

\* for attempt in range(_MAX_RETRIES): whether attempt is in the range
InRange(attempt) == attempt < MAX_RETRIES

RECURSIVE Pow2(_)
Pow2(n) == IF n = 0 THEN 1 ELSE 2 * Pow2(n - 1)

\* Variant: the Retry-After of a rate limit is not taken into account.
BackoffWaitIgnoringRetryAfter(attempt, err) == BACKOFF_BASE * Pow2(attempt)

\* wait = _BACKOFF_BASE * 2**attempt, raised to err.retry_after when the
\* error is a rate limit carrying a truthy retry_after.
BackoffWait(attempt, err) ==
    LET wait == BACKOFF_BASE * Pow2(attempt)
    IN  IF err.kind = RateLimitError /\ ~IsNone(err.retry_after) /\ err.retry_after[1] # 0
        THEN Max(wait, err.retry_after[1])
        ELSE wait

\* ------------------------------------------------------------------------
\* RTETempoAuth: the token cache and the token request
\* ------------------------------------------------------------------------

\* Variant: the cached token is still served at the instant it expires.
TokenValidInclusive(token, expiry, t) == ~IsNone(token) /\ token[1] # "" /\ t <= expiry

\* if self._access_token and time.monotonic() < self._token_expiry
TokenValid(token, expiry, t) == ~IsNone(token) /\ token[1] # "" /\ t < expiry

\* JSON values of the "expires_in" member: an integer, a number with a
\* fractional part (in tenths), a string, null.
JInt(n) == [t |-> "int", int |-> n]

JFloat(tenths) == [t |-> "float", tenths |-> tenths]

JStr(chars) == [t |-> "str", chars |-> chars]

JNull == [t |-> "null"]

\* int(v): None stands for TypeError or ValueError.  A float is truncated
\* toward zero; a string is parsed as an optionally signed decimal integer.
IntOf(v) ==
    CASE v.t = "int" -> Some(v.int)
      [] v.t = "float" -> Some(IF v.tenths >= 0 THEN v.tenths \div 10
                               ELSE 0 - ((0 - v.tenths) \div 10))
      [] v.t = "str" -> ParseFloat(v.chars)
      [] OTHER -> None

\* What the token endpoint can answer: a status and a JSON object, with its
\* "access_token" and "expires_in" members (None: the member is absent).
TokenResponse(status, access_token, expires_in) ==
    [type |-> "response", status |-> status, body |-> "object",
     access_token |-> access_token, expires_in |-> expires_in]

\* A 200 answer whose body is not a JSON object: "not_json" (the content type
\* is not JSON, resp.json() raises aiohttp.ContentTypeError), "bad_json" (the
\* text does not parse, resp.json() raises json.JSONDecodeError), "not_object"
\* (a JSON array, string, number or null).
TokenBody(body) ==
    [type |-> "response", status |-> 200, body |-> body,
     access_token |-> None, expires_in |-> None]

\* Variant: the expiry is the real one, without the safety margin.
TokenExpiryNoMargin(t, expires_in) == t + expires_in

\* self._token_expiry = time.monotonic() + expires_in - _TOKEN_EXPIRY_MARGIN
TokenExpiry(t, expires_in) == t + expires_in - TOKEN_EXPIRY_MARGIN

TransportError == [type |-> "client_error"]

Timeout == [type |-> "timeout"]

\* _async_fetch_token with the answer o received at time t: the exception it
\* raises (NoErr: none) and the cache fields after it.
FetchToken(o, t, token, expiry) ==
    LET unchanged(err) == [raised |-> err, access_token |-> token, token_expiry |-> expiry]
    IN  IF o.type = "client_error"
        THEN unchanged(RTETempoConnectionError("Connection error during token request"))
        ELSE IF o.type = "timeout"
        THEN unchanged(RTETempoConnectionError("Timeout during token request"))
        ELSE IF o.status = 401
        THEN unchanged(RTETempoAuthError("Invalid client credentials (HTTP 401)"))
        ELSE IF o.status # 200
        THEN unchanged(RTETempoAuthError("Token request failed"))
        ELSE IF o.body = "not_json"
        THEN unchanged(RTETempoConnectionError("Connection error during token request"))
        ELSE IF o.body = "bad_json"
        THEN unchanged(Exc(ValueError, None, None, "JSONDecodeError"))
        ELSE IF o.body = "not_object" \/ IsNone(o.access_token)
        THEN unchanged(RTETempoAuthError("Invalid token response"))
        ELSE LET expires_in == IF IsNone(o.expires_in) THEN Some(DEFAULT_EXPIRES_IN)
                               ELSE IntOf(o.expires_in[1])
             IN  IF IsNone(expires_in)
                 THEN unchanged(RTETempoAuthError("Invalid token response"))
                 ELSE [raised |-> NoErr, access_token |-> o.access_token,
                       token_expiry |-> TokenExpiry(t, expires_in[1])]

\* ------------------------------------------------------------------------
\* RTETempoClient._async_fetch: the answer of the data endpoint
\* ------------------------------------------------------------------------

\* body: "valid" (parses), "no_results" (the top-level key is missing),
\* "not_json" (resp.json() raises aiohttp.ContentTypeError).
DataResponse(status, retry_after, body) ==
    [type |-> "response", status |-> status, retry_after |-> retry_after, body |-> body]

\* The exception _async_fetch followed by _parse_response raises on answer o
\* (NoErr: a TempoData is produced).
FetchData(o) ==
    IF o.type = "client_error" THEN RTETempoConnectionError("Connection error")
    ELSE IF o.type = "timeout" THEN RTETempoConnectionError("Request timeout")
    ELSE LET err == CheckResponseStatus(o.status, o.retry_after)
         IN  IF err # NoErr THEN err
             ELSE IF o.body = "not_json" THEN RTETempoConnectionError("Connection error")
             ELSE IF o.body = "no_results" THEN Exc(KeyError, None, None, "tempo_like_calendars")
             ELSE NoErr

\* ------------------------------------------------------------------------
\* State
\* ------------------------------------------------------------------------

VARIABLES
    now,              \* time.monotonic()
    cb_state,         \* RTETempoClient._cb_state
    cb_failure_count, \* RTETempoClient._cb_failure_count
    cb_last_failure,  \* RTETempoClient._cb_last_failure
    access_token,     \* RTETempoAuth._access_token
    token_expiry,     \* RTETempoAuth._token_expiry
    pc,               \* where async_get_tempo_data is suspended
    attempt,          \* loop variable of the retry loop
    last_err,         \* local last_err
    wait,             \* argument of the pending asyncio.sleep
    result,           \* how the latest call ended
    attempts,         \* _async_fetch invocations of the latest call
    sleeps,           \* asyncio.sleep invocations of the latest call
    token_requests,   \* POSTs to the token endpoint of the latest call
    data_requests,    \* GETs to the data endpoint of the latest call
    retry_fails,      \* attempts of the latest call that raised a retryable kind
    fetch_err,        \* what the most recent attempt raised (NoErr: nothing)
    entry_state,      \* _cb_state when the latest call was made
    faults,           \* failures the remote has produced so far
    probe             \* the operation exercised beside async_get_tempo_data: its
                      \* arguments, where its callers are suspended, what it returned

vars ==
    <<now, cb_state, cb_failure_count, cb_last_failure, access_token, token_expiry,
      pc, attempt, last_err, wait, result, attempts, sleeps, token_requests,
      data_requests, retry_fails, fetch_err, entry_state, faults, probe>>

cb == CircuitBreaker(cb_state, cb_failure_count, cb_last_failure)

cbVars == <<cb_state, cb_failure_count, cb_last_failure>>

tokenVars == <<access_token, token_expiry>>

\* No pure function is under test.
NoProbe == [fn |-> "none"]

\* How a call ended: with a TempoData, with an exception, or not yet.
Pending == [kind |-> "pending", err |-> NoErr]

Returned == [kind |-> "data", err |-> NoErr]

Raised(err) == [kind |-> "error", err |-> err]

NoCall == [kind |-> "none", err |-> NoErr]

\* ------------------------------------------------------------------------
\* What the remote can answer in this model
\* ------------------------------------------------------------------------

Statuses == {200, 302, 401, 404, 429, 500, 503, 600}

RetryAfterHeaders == {None, Some(<<"2">>), Some(<<"x">>)}

DataOutcomes ==
    {DataResponse(200, None, b) : b \in {"valid", "no_results", "not_json"}}
    \cup {DataResponse(st, None, "valid") : st \in Statuses \ {200, 429}}
    \cup {DataResponse(429, h, "valid") : h \in RetryAfterHeaders}
    \cup {TransportError, Timeout}

TokenOutcomes ==
    {TokenResponse(200, Some("token"), None),
     TokenResponse(200, None, None),
     TokenResponse(401, None, None),
     TokenResponse(500, None, None),
     TransportError, Timeout}

\* A failure is drawn only while the remote has failures left to produce.
OutcomeAllowed(err) == err = NoErr \/ faults < MaxFaults

Fault(err) == IF err = NoErr THEN faults ELSE faults + 1

\* ------------------------------------------------------------------------
\* Actions
\* ------------------------------------------------------------------------

ClientInit ==
    /\ now = 0
    /\ cb_state = CLOSED
    /\ cb_failure_count = 0
    /\ cb_last_failure = 0
    /\ access_token = None
    /\ token_expiry = 0
    /\ pc = "idle"
    /\ attempt = 0
    /\ last_err = NoErr
    /\ wait = 0
    /\ result = NoCall
    /\ attempts = 0
    /\ sleeps = 0
    /\ token_requests = 0
    /\ data_requests = 0
    /\ retry_fails = 0
    /\ fetch_err = NoErr
    /\ entry_state = CLOSED
    /\ faults = 0

Init == ClientInit /\ probe = NoProbe

\* The call ends: the coroutine returns or raises.
Finish(res) ==
    /\ result' = res
    /\ pc' = "idle"
    /\ attempt' = 0
    /\ last_err' = NoErr
    /\ wait' = 0

\* _async_fetch up to its first suspension, at time t, as attempt number n of
\* the call: async_get_access_token serves a valid cached token without a
\* request (then the GET is sent), otherwise it POSTs to the token endpoint.
BeginFetch(t, n, ntoken, ndata) ==
    /\ attempts' = n
    /\ IF TokenValid(access_token, token_expiry, t)
       THEN /\ pc' = "request"
            /\ data_requests' = ndata + 1
            /\ token_requests' = ntoken
       ELSE /\ pc' = "token"
            /\ token_requests' = ntoken + 1
            /\ data_requests' = ndata

\* Variant: the gate is evaluated again before every attempt after a sleep.
NextIterationGated(t, next, err) ==
    IF InRange(next) /\ CheckCircuitBreaker(cb, t).raised # NoErr
    THEN /\ Finish(Raised(CheckCircuitBreaker(cb, t).raised))
         /\ UNCHANGED <<attempts, token_requests, data_requests>>
    ELSE IF InRange(next)
    THEN /\ attempt' = next
         /\ last_err' = err
         /\ wait' = 0
         /\ result' = result
         /\ BeginFetch(t, attempts + 1, token_requests, data_requests)
    ELSE /\ Finish(Raised(err))
         /\ UNCHANGED <<attempts, token_requests, data_requests>>

\* The next iteration of the for loop, or its end: raise last_err.
NextIteration(t, next, err) ==
    IF InRange(next)
    THEN /\ attempt' = next
         /\ last_err' = err
         /\ wait' = 0
         /\ result' = result
         /\ BeginFetch(t, attempts + 1, token_requests, data_requests)
    ELSE /\ Finish(Raised(err))
         /\ UNCHANGED <<attempts, token_requests, data_requests>>

\* async_get_tempo_data from its call to its first suspension.
StartCall ==
    /\ pc = "idle"
    /\ LET gate == CheckCircuitBreaker(cb, now)
       IN  /\ cb_state' = gate.cb.state
           /\ cb_failure_count' = gate.cb.failure_count
           /\ cb_last_failure' = gate.cb.last_failure
           /\ sleeps' = 0
           /\ retry_fails' = 0
           /\ fetch_err' = NoErr
           /\ entry_state' = cb_state
           /\ IF gate.raised # NoErr
              THEN /\ Finish(Raised(gate.raised))
                   /\ attempts' = 0
                   /\ token_requests' = 0
                   /\ data_requests' = 0
              ELSE /\ attempt' = 0
                   /\ last_err' = NoErr
                   /\ wait' = 0
                   /\ result' = Pending
                   /\ BeginFetch(now, 1, 0, 0)
    /\ UNCHANGED <<now, tokenVars, faults, probe>>

\* The except clauses of the retry loop, for the exception err raised by
\* the current attempt at time now.
HandleError(err) ==
    /\ fetch_err' = err
    /\ retry_fails' = IF err.kind \in RetryableKinds THEN retry_fails + 1 ELSE retry_fails
    /\ LET clause == ExceptClause(err)
           failed == CbOnFailure(cb, now)
       IN  IF clause = "retry"
           THEN /\ cb_state' = failed.state
                /\ cb_failure_count' = failed.failure_count
                /\ cb_last_failure' = failed.last_failure
                /\ IF SleepsAfter(attempt)
                   THEN /\ wait' = BackoffWait(attempt, err)
                        /\ sleeps' = sleeps + 1
                        /\ pc' = "sleep"
                        /\ last_err' = AssignLastErr(last_err, err)
                        /\ UNCHANGED <<attempt, result, attempts, token_requests,
                                       data_requests>>
                   ELSE /\ NextIteration(now, attempt + 1, AssignLastErr(last_err, err))
                        /\ UNCHANGED sleeps
           ELSE IF clause = "raise"
           THEN /\ cb_state' = failed.state
                /\ cb_failure_count' = failed.failure_count
                /\ cb_last_failure' = failed.last_failure
                /\ Finish(Raised(err))
                /\ UNCHANGED <<sleeps, attempts, token_requests, data_requests>>
           ELSE /\ Finish(Raised(err))
                /\ UNCHANGED <<cbVars, sleeps, attempts, token_requests, data_requests>>

\* The token endpoint answers (or the transport fails) while the attempt
\* awaits the token.
TokenAnswer ==
    /\ pc = "token"
    /\ \E o \in TokenOutcomes :
         LET got == FetchToken(o, now, access_token, token_expiry)
         IN  /\ OutcomeAllowed(got.raised)
             /\ faults' = Fault(got.raised)
             /\ access_token' = got.access_token
             /\ token_expiry' = got.token_expiry
             /\ IF got.raised = NoErr
                THEN /\ pc' = "request"
                     /\ data_requests' = data_requests + 1
                     /\ UNCHANGED <<cbVars, attempt, last_err, wait, result, attempts,
                                    sleeps, token_requests, retry_fails, fetch_err>>
                ELSE HandleError(got.raised)
    /\ UNCHANGED <<now, entry_state, probe>>

\* The data endpoint answers (or the transport fails).
DataAnswer ==
    /\ pc = "request"
    /\ \E o \in DataOutcomes :
         LET err == FetchData(o)
         IN  /\ OutcomeAllowed(err)
             /\ faults' = Fault(err)
             /\ IF err = NoErr
                THEN LET ok == CbOnSuccess(cb)
                     IN  /\ cb_state' = ok.state
                         /\ cb_failure_count' = ok.failure_count
                         /\ cb_last_failure' = ok.last_failure
                         /\ fetch_err' = NoErr
                         /\ Finish(Returned)
                         /\ UNCHANGED <<attempts, sleeps, token_requests, data_requests,
                                        retry_fails>>
                ELSE HandleError(err)
    /\ UNCHANGED <<now, tokenVars, entry_state, probe>>

\* asyncio.sleep(wait) returns: the clock has advanced by wait.
SleepDone ==
    /\ pc = "sleep"
    /\ now + wait <= MaxTime
    /\ now' = now + wait
    /\ NextIteration(now + wait, attempt + 1, last_err)
    /\ UNCHANGED <<cbVars, tokenVars, sleeps, retry_fails, fetch_err, entry_state, faults, probe>>

\* Time passes, between two calls of the consumer or while a request is
\* awaited.
Tick ==
    /\ pc \in {"idle", "token", "request"}
    /\ \E d \in TickSteps :
         /\ now + d <= MaxTime
         /\ now' = now + d
    /\ UNCHANGED <<cbVars, tokenVars, pc, attempt, last_err, wait, result, attempts,
                   sleeps, token_requests, data_requests, retry_fails, fetch_err,
                   entry_state, faults, probe>>

Next == StartCall \/ TokenAnswer \/ DataAnswer \/ SleepDone \/ Tick

Spec == Init /\ [][Next]_vars

\* ------------------------------------------------------------------------
\* Properties of the retrying fetch
\* ------------------------------------------------------------------------

\* The latest call was let through by the gate and has ended.
CallEnded == pc = "idle" /\ attempts > 0

\* The latest call was rejected by the gate: it raised without any attempt.
Rejected == pc = "idle" /\ result.kind = "error" /\ attempts = 0

\* Retryable failures of the latest call that another attempt follows: all of
\* them, but the one that ended the call.
FollowedByAttempt ==
    IF CallEnded /\ result.kind = "error" /\ fetch_err.kind \in RetryableKinds
    THEN retry_fails - 1
    ELSE retry_fails

\* C1: a call makes at most 3 attempts and sleeps once per retryable failure
\* that another attempt follows; two retryable failures then a success give 3
\* attempts, 2 sleeps and a result; three retryable failures give 3 attempts,
\* 2 sleeps, no fourth attempt and an error.
C1_BoundedRetry ==
    /\ attempts <= 3 /\ data_requests <= attempts
    /\ sleeps = FollowedByAttempt
    /\ (CallEnded /\ result.kind = "data" /\ retry_fails = 2) => (attempts = 3 /\ sleeps = 2)
    /\ retry_fails >= 3 =>
         (retry_fails = 3 /\ attempts = 3 /\ sleeps = 2 /\ pc = "idle" /\ result.kind = "error")

C1_Witness ==
    CallEnded /\ retry_fails = 3 /\ attempts = 3 /\ sleeps = 2 /\ result.kind = "error"

\* C2: an AuthError or ClientError raised by an attempt ends the call with
\* that error at once: no attempt and no sleep follows it.
C2_NonRetryableRaised ==
    fetch_err.kind \in {AuthError, ClientError} =>
        /\ pc = "idle"
        /\ result = Raised(fetch_err)
        /\ sleeps = attempts - 1
        /\ retry_fails = attempts - 1

C2_Witness ==
    fetch_err.kind = ClientError /\ attempts = 3 /\ sleeps = 2 /\ result = Raised(fetch_err)

\* C3: when all 3 attempts fail with retryable errors, the call raises the
\* error of the third attempt, kind and payload unchanged.
C3_LastErrorRaised ==
    (CallEnded /\ retry_fails = 3) => result = Raised(fetch_err)

C3_Witness ==
    /\ CallEnded /\ retry_fails = 3
    /\ result.err.kind = RateLimitError
    /\ result.err.retry_after = Some(2)

\* C4: a call made while the breaker is open and less than 300 s after the
\* last failure raises at once, sends no token request and no data request,
\* does not sleep, and leaves the three breaker fields as they were.
C4_OpenRejects ==
    [][(pc = "idle" /\ cb_state = OPEN /\ now - cb_last_failure < 300 /\ now' = now) =>
          /\ pc' = "idle"
          /\ result'.kind = "error"
          /\ attempts' = 0 /\ token_requests' = 0 /\ data_requests' = 0 /\ sleeps' = 0
          /\ UNCHANGED <<cb_state, cb_failure_count, cb_last_failure>>
          /\ UNCHANGED <<access_token, token_expiry>>]_vars

C4_Witness ==
    /\ Rejected /\ entry_state = OPEN /\ cb_state = OPEN
    /\ now - cb_last_failure = 299
    /\ token_requests = 0 /\ data_requests = 0 /\ sleeps = 0

\* C5: the breaker is closed exactly when fewer than 5 consecutive failures
\* are recorded, open or half-open only with 5 or more, and a recorded
\* failure that brings the count to 5 or more leaves it open.
C5_ClosedIffBelowThreshold ==
    /\ [](/\ cb_state \in {CLOSED, OPEN, HALF_OPEN}
          /\ cb_state = CLOSED <=> cb_failure_count < 5
          /\ cb_state \in {OPEN, HALF_OPEN} => cb_failure_count >= 5)
    /\ [][(cb_failure_count' > cb_failure_count /\ cb_failure_count' >= 5) =>
             cb_state' = OPEN]_vars

\* Two retry-exhausted calls of 3 failed attempts each.
C5_Witness ==
    CallEnded /\ retry_fails = 3 /\ cb_failure_count = 6 /\ cb_state = OPEN

\* C6: a call made while the breaker is open and 300 s or more after the last
\* failure sets it half-open and starts the first attempt; the breaker
\* becomes half-open in no other way.
C6_HalfOpenAfterCooldown ==
    /\ [][(pc = "idle" /\ cb_state = OPEN /\ now - cb_last_failure >= 300 /\ now' = now) =>
             (cb_state' = HALF_OPEN /\ attempts' = 1 /\ pc' \in {"token", "request"})]_vars
    /\ [][(cb_state' = HALF_OPEN /\ cb_state # HALF_OPEN) =>
             /\ pc = "idle" /\ cb_state = OPEN /\ now - cb_last_failure >= 300
             /\ attempts' = 1 /\ pc' \in {"token", "request"}]_vars

C6_Witness ==
    /\ cb_state = HALF_OPEN /\ entry_state = OPEN /\ pc = "request"
    /\ now - cb_last_failure = 300

\* C7: a call that returns a result leaves the failure count at 0 and the
\* breaker closed, whatever they were before and however many attempts failed.
C7_SuccessResets ==
    (pc = "idle" /\ result.kind = "data") => (cb_failure_count = 0 /\ cb_state = CLOSED)

C7_Witness ==
    /\ CallEnded /\ result.kind = "data" /\ entry_state = OPEN /\ retry_fails = 1
    /\ cb_failure_count = 0 /\ cb_state = CLOSED

\* ------------------------------------------------------------------------
\* Recovery
\* ------------------------------------------------------------------------

\* Time advances, the consumer keeps calling, every awaited request is
\* answered (each has a timeout) and every sleep returns.
FairSpec ==
    /\ Spec
    /\ WF_vars(Tick)
    /\ WF_vars(StartCall)
    /\ WF_vars(TokenAnswer)
    /\ WF_vars(DataAnswer)
    /\ WF_vars(SleepDone)

\* The remote has no failure left to produce: it answers every request
\* successfully from now on.
RemoteHealthy == faults = MaxFaults

\* The clock of the model can still run through a cooldown, whatever the
\* steps by which it advances.
ClockLeft == now + 2 * CB_RECOVERY_TIMEOUT <= MaxTime

\* C8: once the remote answers every request successfully, an open breaker
\* is eventually closed again with the failure count at 0, by the calls of
\* the consumer alone; a call rejected by the open breaker does not move the
\* time from which the cooldown is measured.
C8_AutomaticRecovery ==
    /\ (cb_state = OPEN /\ RemoteHealthy /\ ClockLeft)
           ~> (cb_state = CLOSED /\ cb_failure_count = 0)
    /\ [][(pc = "idle" /\ cb_state = OPEN /\ pc' = "idle" /\ now' = now) =>
             cb_last_failure' = cb_last_failure]_vars

\* An open breaker from which the recovery of C8 starts.
C8_Start == cb_state = OPEN /\ RemoteHealthy /\ ClockLeft /\ cb_failure_count = 5

C8_Witness ==
    /\ RemoteHealthy /\ entry_state = OPEN /\ CallEnded /\ result.kind = "data"
    /\ cb_state = CLOSED /\ cb_failure_count = 0
    /\ token_requests = 0

\* C9 as stated: the rejection by the open breaker has a kind of its own,
\* none of the kinds a request can fail with.
C9_Original ==
    Rejected =>
        result.err.kind \notin {AuthError, ClientError, RateLimitError, ServerError,
                                ConnectionError, BaseError}

\* C9, amended: the rejection by the open breaker is a ConnectionError, the
\* kind of a network failure or timeout, with the message "Circuit breaker is
\* open"; no error of a call that made an attempt carries that message.
C9_RejectionIsConnectionError ==
    /\ Rejected => result.err = RTETempoConnectionError(CircuitOpenMessage)
    /\ (CallEnded /\ result.kind = "error") => result.err.msg # CircuitOpenMessage
    /\ fetch_err.msg # CircuitOpenMessage

C9_Witness ==
    /\ Rejected /\ result.err.kind = ConnectionError
    /\ result.err.msg = CircuitOpenMessage
    /\ cb_failure_count = 5

\* ------------------------------------------------------------------------
\* The status mapping as a function: every status with every Retry-After
\* header of the bounded alphabet
\* ------------------------------------------------------------------------

HeaderStrings == UNION {[1..n -> HeaderChars] : n \in 0..MaxHeaderLen}

HeaderValues == {None} \cup {Some(h) : h \in HeaderStrings}

StatusProbes ==
    {[fn |-> "check_response_status", status |-> st, retry_after |-> h,
      done |-> FALSE, out |-> NoErr] : st \in 100..MaxStatus, h \in HeaderValues}

InitStatus == ClientInit /\ probe \in StatusProbes

\* _check_response_status(resp) is called.
ApplyCheckResponseStatus ==
    /\ probe.fn = "check_response_status"
    /\ ~probe.done
    /\ probe' = [probe EXCEPT !.done = TRUE,
                              !.out = CheckResponseStatus(probe.status, probe.retry_after)]
    /\ UNCHANGED <<now, cbVars, tokenVars, pc, attempt, last_err, wait, result, attempts,
                   sleeps, token_requests, data_requests, retry_fails, fetch_err,
                   entry_state, faults>>

NextStatus == ApplyCheckResponseStatus

SpecStatus == InitStatus /\ [][NextStatus]_vars

\* A header value is numeric: digits, after an optional minus sign.
Numeric(h) == AllDigits(h) \/ (Len(h) > 1 /\ h[1] = "-" /\ AllDigits(Tail(h)))

NumericValue(h) == IF h[1] = "-" THEN 0 - DigitsValue(Tail(h)) ELSE DigitsValue(h)

\* The mapping of the status table.
TableRetryAfter(h) == IF ~IsNone(h) /\ Numeric(h[1]) THEN Some(NumericValue(h[1])) ELSE None

TableHolds(st, h, out) ==
    IF st = 200 THEN out = NoErr
    ELSE IF st = 401 THEN out.kind = AuthError
    ELSE IF st = 429 THEN out.kind = RateLimitError /\ out.retry_after = TableRetryAfter(h)
    ELSE IF st \in 400..499 THEN out.kind = ClientError /\ out.status_code = Some(st)
    ELSE IF st \in 500..599 THEN out.kind = ServerError /\ out.status_code = Some(st)
    ELSE out.kind = BaseError

\* C10: the status check maps 200 to success, 401 to AuthError, 429 to
\* RateLimitError with the numeric Retry-After or null, the other 4xx to
\* ClientError(status), 5xx to ServerError(status), and every other status
\* (below 400 and not 200, or 600 and above) to the generic error.
C10_Original ==
    (probe.fn = "check_response_status" /\ probe.done) =>
        TableHolds(probe.status, probe.retry_after, probe.out)

\* ------------------------------------------------------------------------
\* Backoff
\* ------------------------------------------------------------------------

\* 2^i seconds, written out for the attempts a sleep can follow.
TwoToThe(i) == CASE i = 0 -> 1 [] i = 1 -> 2 [] i = 2 -> 4

\* The documented duration of the sleep after attempt i failed with err.
DocumentedSleep(i, err) ==
    IF err.kind = RateLimitError /\ err.retry_after # None
    THEN Max(TwoToThe(i), err.retry_after[1])
    ELSE TwoToThe(i)

\* C11: the sleep after attempt i (counted from 0) of a call lasts
\* max(2^i, retryAfter) seconds when attempt i failed with a RateLimitError
\* carrying retryAfter and 2^i seconds after any other retryable failure, and
\* attempt i+1 starts when that time has passed.
C11_BackoffDuration ==
    /\ [](pc = "sleep" =>
            /\ fetch_err.kind \in RetryableKinds
            /\ attempt = attempts - 1
            /\ wait = DocumentedSleep(attempt, fetch_err))
    /\ [][pc = "sleep" =>
             /\ now' = now + DocumentedSleep(attempt, fetch_err)
             /\ attempt' = attempt + 1
             /\ attempts' = attempts + 1
             /\ pc' \in {"token", "request"}]_vars

\* The rate limit asks for 2 s after the first attempt, where 2^0 = 1.
C11_Witness ==
    /\ pc = "sleep" /\ attempt = 0
    /\ fetch_err.kind = RateLimitError /\ fetch_err.retry_after = Some(2)
    /\ wait = 2

\* ------------------------------------------------------------------------
\* RTETempoClient.async_test_credentials, called on a client in any state
\* its breaker and its token cache can be in
\* ------------------------------------------------------------------------

\* The _cb_* fields an idle client can hold: closed below the threshold, open
\* or half-open at or above it (half-open is left behind by a probing call
\* that ended with an exception no except clause takes).
BreakerStates ==
    {CircuitBreaker(CLOSED, n, 0) : n \in 0..(CB_FAILURE_THRESHOLD - 1)}
    \cup {CircuitBreaker(s, n, 0) : s \in {OPEN, HALF_OPEN},
                                    n \in CB_FAILURE_THRESHOLD..MaxFaults}

\* The token cache: empty, or a token fetched at time 0 that expires_in made
\* valid until CB_RECOVERY_TIMEOUT or until long after MaxTime.
TokenCaches ==
    {[access_token |-> None, token_expiry |-> 0],
     [access_token |-> Some("token"), token_expiry |-> CB_RECOVERY_TIMEOUT],
     [access_token |-> Some("token"),
      token_expiry |-> DEFAULT_EXPIRES_IN - TOKEN_EXPIRY_MARGIN]}

\* The state of the latest async_test_credentials call.
CredentialTest(at, ntoken, ndata, token_err, res, before) ==
    [fn |-> "test_credentials", pc |-> at, token_requests |-> ntoken,
     data_requests |-> ndata, token_err |-> token_err, result |-> res,
     cb_before |-> before]

InitCredentials ==
    /\ now = 0
    /\ \E b \in BreakerStates :
         /\ cb_state = b.state
         /\ cb_failure_count = b.failure_count
         /\ cb_last_failure = b.last_failure
    /\ \E c \in TokenCaches :
         /\ access_token = c.access_token
         /\ token_expiry = c.token_expiry
    /\ pc = "idle"
    /\ attempt = 0
    /\ last_err = NoErr
    /\ wait = 0
    /\ result = NoCall
    /\ attempts = 0
    /\ sleeps = 0
    /\ token_requests = 0
    /\ data_requests = 0
    /\ retry_fails = 0
    /\ fetch_err = NoErr
    /\ entry_state = cb_state
    /\ faults = 0
    /\ probe = CredentialTest("idle", 0, 0, NoErr, NoCall, cb)

\* Variant: the outcome of the credential test is recorded by the breaker.
TestCredentialsBreakerRecording(b, err, t) ==
    IF err = NoErr THEN CbOnSuccess(b) ELSE CbOnFailure(b, t)

\* The _cb_* fields after async_test_credentials ended with err at time t:
\* the method calls none of the _cb_* helpers.
TestCredentialsBreaker(b, err, t) == b

\* What the try block of async_test_credentials raises on answer o of the
\* data endpoint (NoErr: nothing); the body is not read.
TestCredentialsRequest(o) ==
    IF o.type = "client_error"
    THEN RTETempoConnectionError("Connection error during credential test")
    ELSE IF o.type = "timeout"
    THEN RTETempoConnectionError("Timeout during credential test")
    ELSE CheckResponseStatus(o.status, o.retry_after)

CredentialsFrame ==
    UNCHANGED <<pc, attempt, last_err, wait, result, attempts, sleeps, token_requests,
                data_requests, retry_fails, fetch_err, entry_state>>

\* The credential test ends with err (NoErr: it returns).
CredentialsFinish(err, token_err, ntoken, ndata) ==
    LET after == TestCredentialsBreaker(cb, err, now)
    IN  /\ cb_state' = after.state
        /\ cb_failure_count' = after.failure_count
        /\ cb_last_failure' = after.last_failure
        /\ probe' = CredentialTest("done", ntoken, ndata, token_err,
                                   IF err = NoErr THEN Returned ELSE Raised(err),
                                   probe.cb_before)

\* async_test_credentials from its call to its first suspension: the token
\* is served from the cache and the GET is sent, or the token is requested.
TestCredentialsCall ==
    /\ probe.pc \in {"idle", "done"}
    /\ probe' = IF TokenValid(access_token, token_expiry, now)
                THEN CredentialTest("request", 0, 1, NoErr, Pending, cb)
                ELSE CredentialTest("token", 1, 0, NoErr, Pending, cb)
    /\ CredentialsFrame
    /\ UNCHANGED <<now, cbVars, tokenVars, faults>>

\* The token endpoint answers the credential test.
TestCredentialsTokenAnswer ==
    /\ probe.pc = "token"
    /\ \E o \in TokenOutcomes :
         LET got == FetchToken(o, now, access_token, token_expiry)
         IN  /\ OutcomeAllowed(got.raised)
             /\ faults' = Fault(got.raised)
             /\ access_token' = got.access_token
             /\ token_expiry' = got.token_expiry
             /\ IF got.raised = NoErr
                THEN /\ probe' = [probe EXCEPT !.pc = "request", !.data_requests = @ + 1]
                     /\ UNCHANGED cbVars
                ELSE CredentialsFinish(got.raised, got.raised, probe.token_requests,
                                       probe.data_requests)
    /\ CredentialsFrame
    /\ UNCHANGED now

\* The data endpoint answers the credential test.
TestCredentialsDataAnswer ==
    /\ probe.pc = "request"
    /\ \E o \in DataOutcomes :
         LET err == TestCredentialsRequest(o)
         IN  /\ OutcomeAllowed(err)
             /\ faults' = Fault(err)
             /\ CredentialsFinish(err, NoErr, probe.token_requests, probe.data_requests)
    /\ CredentialsFrame
    /\ UNCHANGED <<now, tokenVars>>

NextCredentials ==
    TestCredentialsCall \/ TestCredentialsTokenAnswer \/ TestCredentialsDataAnswer \/ Tick

SpecCredentials == InitCredentials /\ [][NextCredentials]_vars

CredentialTestEnded == probe.fn = "test_credentials" /\ probe.pc = "done"

\* C12 as stated: every credential test sends exactly one request to the data
\* endpoint.
C12_Original == CredentialTestEnded => probe.data_requests = 1

\* C12, amended: a credential test sends at most one token request and at
\* most one data request, exactly one data request when it obtained a token
\* and none when the token request failed (it then raises that failure); it
\* never retries and never sleeps, it is let through by an open breaker, and
\* no step of it changes the three breaker fields, whether it returns or
\* raises.
C12_SingleUnguardedCall ==
    /\ [](/\ probe.token_requests <= 1 /\ probe.data_requests <= 1
          /\ pc # "sleep" /\ sleeps = 0 /\ attempts = 0
          /\ cb = probe.cb_before
          /\ CredentialTestEnded =>
               /\ probe.data_requests = (IF probe.token_err = NoErr THEN 1 ELSE 0)
               /\ probe.token_err # NoErr => probe.result = Raised(probe.token_err))
    /\ [][UNCHANGED <<cb_state, cb_failure_count, cb_last_failure>>]_vars
    /\ [][(probe.pc \in {"idle", "done"} /\ probe' # probe) =>
             /\ probe'.pc \in {"token", "request"}
             /\ probe'.token_requests + probe'.data_requests = 1]_vars

\* A credential test made on an open breaker within its cooldown, whose
\* single data request failed.
C12_Witness ==
    /\ CredentialTestEnded
    /\ cb_state = OPEN /\ now - cb_last_failure < CB_RECOVERY_TIMEOUT
    /\ probe.data_requests = 1
    /\ probe.result.kind = "error" /\ probe.result.err.kind = ServerError
    /\ cb = probe.cb_before

\* ------------------------------------------------------------------------
\* RTETempoAuth.async_get_access_token called by concurrent callers on one
\* manager.  Between two awaits a caller runs alone (one event loop).
\* ------------------------------------------------------------------------

\* Number of callers; each calls async_get_access_token once, at any time.
NumCallers == 3

Callers == 1..NumCallers

\* Access tokens the endpoint issues; it never issues the cached one again.
TokenNames == {"token_a", "token_b"}

\* Lifetimes the endpoint announces: none (the default applies), or one that
\* ends with the safety margin after a cooldown-long pause.
ExpiresInValues == {None, Some(JInt(CB_RECOVERY_TIMEOUT + TOKEN_EXPIRY_MARGIN))}

\* A lifetime no longer than the safety margin: the margin itself.
ShortExpiresInValues == {Some(JInt(TOKEN_EXPIRY_MARGIN))}

ManagerOutcomes ==
    {TokenResponse(200, Some(n), e) :
        n \in TokenNames, e \in ExpiresInValues \cup ShortExpiresInValues}
    \cup {TokenResponse(401, None, None), TransportError}

\* How a call of async_get_access_token ended.  fetch_time and expires_in
\* are those of the token returned.
NoToken == [kind |-> "none", source |-> "none", token |-> "", at |-> 0,
            fetch_time |-> 0, expires_in |-> 0]

TokenReturned(source, token, t, fetch_time, expires_in) ==
    [kind |-> "token", source |-> source, token |-> token, at |-> t,
     fetch_time |-> fetch_time, expires_in |-> expires_in]

TokenRaised == [NoToken EXCEPT !.kind = "error"]

\* A call: when it was made, the cache it found, the POSTs it sent, whether
\* another call was under way at any time during it, how it ended.
TokenCall(t, token, expiry, overlap) ==
    [at |-> t, cache_token |-> token, cache_expiry |-> expiry, requests |-> 0,
     overlap |-> overlap, result |-> NoToken]

\* Variant: the fetch is not guarded by the lock.
CanAcquireAlways(lock, waiters) == TRUE

\* asyncio.Lock.acquire returns at once: the lock is free and nobody waits.
CanAcquire(lock, waiters) == lock = 0 /\ waiters = <<>>

\* The first answer to a token request: who sent the request, whether it
\* gave a token, when, and the lifetime announced.
NoFirst == [by |-> 0, ok |-> FALSE, at |-> 0, expires_in |-> 0]

RecheckSkipped(token, expiry, t) == FALSE

\* Variant: a cached token is taken whatever its expiry.
RecheckIgnoringExpiry(token, expiry, t) == ~IsNone(token) /\ token[1] # ""

\* auth.py:43: the validity test repeated once the lock is held.
RecheckValid(token, expiry, t) == TokenValid(token, expiry, t)

TokenManagerInit ==
    [fn |-> "get_access_token",
     pc |-> [c \in Callers |-> "idle"],
     lock |-> 0,
     waiters |-> <<>>,
     fetched |-> [at |-> 0, expires_in |-> 0],
     first |-> NoFirst,
     lifetimes |-> ExpiresInValues,
     call |-> [c \in Callers |-> TokenCall(0, None, 0, FALSE)]]

InitToken == ClientInit /\ probe = TokenManagerInit

TokenFrame ==
    UNCHANGED <<cbVars, pc, attempt, last_err, wait, result, attempts, sleeps,
                token_requests, data_requests, retry_fails, fetch_err, entry_state, faults>>

\* The cached token is returned.
ServeCached(t) ==
    TokenReturned("cache", access_token[1], t, probe.fetched.at, probe.fetched.expires_in)

\* Caller c calls async_get_access_token and runs to its return or to its
\* first suspension: the fast path, the POST under the lock, or the wait for
\* the lock.
GetAccessToken(c) ==
    /\ probe.pc[c] = "idle"
    /\ LET others == {d \in Callers \ {c} : probe.pc[d] \in {"wait", "post"}}
           mine == TokenCall(now, access_token, token_expiry, others # {})
           calls == [d \in Callers |->
                        IF d = c THEN mine
                        ELSE IF d \in others THEN [probe.call[d] EXCEPT !.overlap = TRUE]
                        ELSE probe.call[d]]
       IN  IF TokenValid(access_token, token_expiry, now)
           THEN probe' = [probe EXCEPT !.pc[c] = "done",
                                       !.call = [calls EXCEPT ![c].result = ServeCached(now)]]
           ELSE IF CanAcquire(probe.lock, probe.waiters)
           THEN probe' = [probe EXCEPT !.pc[c] = "post", !.lock = c,
                                       !.call = [calls EXCEPT ![c].requests = 1]]
           ELSE probe' = [probe EXCEPT !.pc[c] = "wait", !.waiters = Append(@, c),
                                       !.call = calls]
    /\ TokenFrame
    /\ UNCHANGED <<now, tokenVars>>

\* The lock is handed to the caller that waited longest: it checks the cache
\* again, returns the token another caller fetched, or sends its own POST.
LockAcquired(c) ==
    /\ probe.pc[c] = "wait"
    /\ probe.lock = 0
    /\ probe.waiters # <<>> /\ Head(probe.waiters) = c
    /\ IF RecheckValid(access_token, token_expiry, now)
       THEN probe' = [probe EXCEPT !.pc[c] = "done", !.waiters = Tail(@),
                                   !.call[c].result = ServeCached(now)]
       ELSE probe' = [probe EXCEPT !.pc[c] = "post", !.lock = c, !.waiters = Tail(@),
                                   !.call[c].requests = @ + 1]
    /\ TokenFrame
    /\ UNCHANGED <<now, tokenVars>>

\* The token endpoint answers caller c (or the transport fails):
\* _async_fetch_token ends and the lock is released.
TokenPostAnswer(c) ==
    /\ probe.pc[c] = "post"
    /\ \E o \in ManagerOutcomes :
         LET got == FetchToken(o, now, access_token, token_expiry)
             lifetime == IF IsNone(o.expires_in) THEN DEFAULT_EXPIRES_IN
                         ELSE o.expires_in[1].int
         IN  /\ o.type = "response" => o.access_token # access_token
             /\ (o.type = "response" /\ o.status = 200) => o.expires_in \in probe.lifetimes
             /\ access_token' = got.access_token
             /\ token_expiry' = got.token_expiry
             /\ probe' =
                  IF got.raised = NoErr
                  THEN [probe EXCEPT
                          !.pc[c] = "done", !.lock = 0,
                          !.fetched = [at |-> now, expires_in |-> lifetime],
                          !.first = IF @ = NoFirst
                                    THEN [by |-> c, ok |-> TRUE, at |-> now,
                                          expires_in |-> lifetime]
                                    ELSE @,
                          !.call[c].result =
                              TokenReturned("fetch", got.access_token[1], now, now, lifetime)]
                  ELSE [probe EXCEPT !.pc[c] = "done", !.lock = 0,
                                     !.first = IF @ = NoFirst
                                               THEN [NoFirst EXCEPT !.by = c, !.at = now]
                                               ELSE @,
                                     !.call[c].result = TokenRaised]
    /\ TokenFrame
    /\ UNCHANGED now

NextToken ==
    \/ \E c \in Callers : GetAccessToken(c)
    \/ \E c \in Callers : LockAcquired(c)
    \/ \E c \in Callers : TokenPostAnswer(c)
    \/ Tick

SpecToken == InitToken /\ [][NextToken]_vars

\* The calls of async_get_access_token that have ended.
EndedTokenCalls ==
    IF probe.fn = "get_access_token"
    THEN {probe.call[c] : c \in {d \in Callers : probe.pc[d] = "done"}}
    ELSE {}

\* C13: a call made while a token is cached and the clock is before its
\* expiry returns the cached token and sends no token request; a call made
\* with no cached token or at or after the expiry, with no other call under
\* way, sends exactly one token request and returns the token that request
\* fetched (or raises that request's failure).
C13_CachedUntilExpiry ==
    \A k \in EndedTokenCalls :
        IF k.cache_token # None /\ k.at < k.cache_expiry
        THEN /\ k.requests = 0
             /\ k.result.kind = "token" /\ k.result.source = "cache"
             /\ Some(k.result.token) = k.cache_token
        ELSE ~k.overlap =>
             /\ k.requests = 1
             /\ k.result.kind = "token" =>
                  /\ k.result.source = "fetch"
                  /\ Some(k.result.token) # k.cache_token

\* A lone call made at the very instant the cached token expires.
C13_Witness ==
    \E k \in EndedTokenCalls :
        /\ k.cache_token # None /\ k.at = k.cache_expiry /\ ~k.overlap
        /\ k.requests = 1 /\ k.result.kind = "token" /\ k.result.source = "fetch"

\* The callers whose POST to the token endpoint is in flight.
InFlight ==
    IF probe.fn = "get_access_token"
    THEN {c \in Callers : probe.pc[c] = "post"}
    ELSE {}

\* C14: whatever the number of concurrent callers and however they
\* interleave at their suspension points, at most one request to the token
\* endpoint is in flight at any time, and the caller that sent it holds the lock.
C14_OneFetchInFlight ==
    /\ Cardinality(InFlight) <= 1
    /\ \A c \in InFlight : probe.lock = c

\* One caller awaits the endpoint while every other caller waits for the lock.
C14_Witness ==
    /\ Cardinality(InFlight) = 1
    /\ \A c \in Callers \ InFlight : probe.pc[c] = "wait"
    /\ Len(probe.waiters) = NumCallers - 1

\* C15: the expiry kept with a fetched token is the time of the fetch plus
\* expires_in (3600 when the answer has none) minus 60, and a call served from
\* the cache at time t is served with t before that: the token it returns has
\* more than 60 seconds left before fetch time plus expires_in.
C15_ExpiryMargin ==
    /\ (probe.fn = "get_access_token" /\ access_token # None) =>
          token_expiry = probe.fetched.at + probe.fetched.expires_in - 60
    /\ \A k \in EndedTokenCalls :
          k.result.source = "cache" =>
              /\ k.result.at < k.result.fetch_time + k.result.expires_in - 60
              /\ (k.result.fetch_time + k.result.expires_in) - k.result.at > 60

\* A token announced for 360 s is served from the cache 299 s after its
\* fetch, 61 s before it expires.
C15_Witness ==
    \E k \in EndedTokenCalls :
        /\ k.result.source = "cache"
        /\ k.result.expires_in = 360
        /\ k.result.at = k.result.fetch_time + 299

\* ------------------------------------------------------------------------
\* RTETempoAuth._async_fetch_token as a function of the endpoint's answer
\* ------------------------------------------------------------------------

\* Values of the "expires_in" member: absent, null, integers, numbers with a
\* fraction (12.5, 3600.0), strings over the bounded alphabet.
ExpiresInMembers ==
    {None, Some(JNull)}
    \cup {Some(JInt(n)) : n \in {0, TOKEN_EXPIRY_MARGIN, DEFAULT_EXPIRES_IN}}
    \cup {Some(JFloat(n)) : n \in {125, 10 * DEFAULT_EXPIRES_IN}}
    \cup {Some(JStr(h)) : h \in HeaderStrings}

TokenAnswers ==
    {TokenResponse(st, None, None) : st \in (100..MaxStatus) \ {200}}
    \cup {TokenResponse(200, a, e) : a \in {None, Some("token_a")}, e \in ExpiresInMembers}
    \cup {TokenBody(b) : b \in {"not_json", "bad_json", "not_object"}}
    \cup {TransportError, Timeout}

InitFetchToken ==
    /\ ClientInit
    /\ \E o \in TokenAnswers : probe = [fn |-> "fetch_token", o |-> o, done |-> FALSE,
                                        out |-> FetchToken(TransportError, 0, None, 0)]

\* _async_fetch_token runs on the answer.
ApplyFetchToken ==
    /\ probe.fn = "fetch_token"
    /\ ~probe.done
    /\ LET got == FetchToken(probe.o, now, access_token, token_expiry)
       IN  /\ probe' = [probe EXCEPT !.done = TRUE, !.out = got]
           /\ access_token' = got.access_token
           /\ token_expiry' = got.token_expiry
    /\ UNCHANGED <<now, cbVars, pc, attempt, last_err, wait, result, attempts,
                   sleeps, token_requests, data_requests, retry_fails, fetch_err,
                   entry_state, faults>>

NextFetchToken == ApplyFetchToken

SpecFetchToken == InitFetchToken /\ [][NextFetchToken]_vars

\* The member is an integer: a JSON integer, a number without a fraction, or
\* a string that spells an integer.
IntegerMember(v) ==
    \/ v.t = "int"
    \/ v.t = "float" /\ v.tenths % 10 = 0
    \/ v.t = "str" /\ Numeric(v.chars)

\* The body of a 200 answer has the access_token member.
HasAccessToken(o) == o.body = "object" /\ o.access_token # None

\* The documented result of a token fetch.
TokenTableHolds(o, out) ==
    IF o.type # "response" THEN out.raised.kind = ConnectionError
    ELSE IF o.status # 200 THEN out.raised.kind = AuthError
    ELSE IF ~HasAccessToken(o) THEN out.raised.kind = AuthError
    ELSE IF o.expires_in # None /\ ~IntegerMember(o.expires_in[1])
    THEN out.raised.kind = AuthError
    ELSE out.raised = NoErr /\ out.access_token = o.access_token

\* C16: a token fetch ends in exactly one of: AuthError for status 401 and
\* for any other status but 200, ConnectionError for a transport failure or a
\* timeout, AuthError for a 200 answer whose body lacks access_token or whose
\* expires_in is not an integer, the access token otherwise.
C16_Original ==
    (probe.fn = "fetch_token" /\ probe.done) => TokenTableHolds(probe.o, probe.out)

\* ------------------------------------------------------------------------
\* Parsing helpers: adjust_tempo_time, parse_rte_api_datetime,
\* parse_rte_api_date, _parse_response
\* ------------------------------------------------------------------------

HOUR_OF_CHANGE == 6

\* Longest list of entries under payload["tempo_like_calendars"]["values"].
MaxEntries == 3

\* A timestamp string of the API: the day and the hour it spells and the
\* shape of its text: "colon" ends in an offset written +01:00, "no_colon"
\* in +0100, "garbage" is no timestamp at all.
Timestamp(day, hour, shape) == [day |-> day, hour |-> hour, shape |-> shape]

\* A datetime.datetime (day number, hour) and a datetime.date (day number).
DateTime(day, hour) == [day |-> day, hour |-> hour]

Date(day) == [day |-> day]

\* Variant: the hour of the source is replaced, not shifted.
AdjustTempoTimeSettingHour(date) == DateTime(date.day, HOUR_OF_CHANGE)

\* date + datetime.timedelta(hours=HOUR_OF_CHANGE)
AdjustTempoTime(date) ==
    LET h == date.hour + HOUR_OF_CHANGE
    IN  IF h >= 24 THEN DateTime(date.day + 1, h - 24) ELSE DateTime(date.day, h)

\* date[:-3] + date[-2:] drops the third character from the end, the colon
\* of the offset; strptime with API_DATE_FORMAT then accepts the text only
\* if it was a timestamp with that colon.  None stands for ValueError.
ParseRteApiDatetime(date) ==
    IF date.shape = "colon" THEN Some(DateTime(date.day, date.hour)) ELSE None

\* parse_rte_api_date: the year, month and day of the parsed datetime.
ParseRteApiDate(date) ==
    LET parsed == ParseRteApiDatetime(date)
    IN  IF IsNone(parsed) THEN None ELSE Some(Date(parsed[1].day))

\* An entry of the payload: each member is None (absent) or Some(value).
Entry(start_date, end_date, value, updated_date) ==
    [start_date |-> start_date, end_date |-> end_date, value |-> value,
     updated_date |-> updated_date]

TempoDay(start, end, value, updated) ==
    [start |-> start, end |-> end, value |-> value, updated |-> updated]

\* The first exception raised while the arguments of a TempoDay are
\* evaluated in order (start, end, value, updated): "none", KeyError for an
\* absent member, ValueError for a text strptime rejects.
RECURSIVE FirstError(_)
FirstError(members) ==
    IF members = <<>> THEN "none"
    ELSE LET m == Head(members)
         IN  IF IsNone(m.member) THEN KeyError
             ELSE IF m.timestamp /\ IsNone(ParseRteApiDatetime(m.member[1])) THEN ValueError
             ELSE FirstError(Tail(members))

EntryError(entry) ==
    FirstError(<<[member |-> entry.start_date, timestamp |-> TRUE],
                 [member |-> entry.end_date, timestamp |-> TRUE],
                 [member |-> entry.value, timestamp |-> FALSE],
                 [member |-> entry.updated_date, timestamp |-> TRUE]>>)

\* The TempoDay appended to adjusted_days for an entry without error.
AdjustedDay(entry) ==
    TempoDay(AdjustTempoTime(ParseRteApiDatetime(entry.start_date[1])[1]),
             AdjustTempoTime(ParseRteApiDatetime(entry.end_date[1])[1]),
             entry.value[1],
             ParseRteApiDatetime(entry.updated_date[1])[1])

\* Variant: the updated timestamp of the date-aligned day is read from the
\* end member.
RegularDayUpdatedFromEnd(entry) ==
    TempoDay(ParseRteApiDate(entry.start_date[1])[1],
             ParseRteApiDate(entry.end_date[1])[1],
             entry.value[1],
             ParseRteApiDatetime(entry.end_date[1])[1])

\* The TempoDay appended to regular_days for an entry without error.
RegularDay(entry) ==
    TempoDay(ParseRteApiDate(entry.start_date[1])[1],
             ParseRteApiDate(entry.end_date[1])[1],
             entry.value[1],
             ParseRteApiDatetime(entry.updated_date[1])[1])

\* Variant: every exception of an entry is caught, the entry skipped.
HandleEntryErrorCatchingAll(err) == "skip"

\* except KeyError: the entry is skipped; any other exception leaves
\* _parse_response.
HandleEntryError(err) == IF err = KeyError THEN "skip" ELSE "raise"

TempoData(adjusted_days, regular_days, data_end) ==
    [kind |-> "data", adjusted_days |-> adjusted_days, regular_days |-> regular_days,
     data_end |-> data_end, raised |-> "none"]

ParseRaised(err) ==
    [kind |-> "error", adjusted_days |-> <<>>, regular_days |-> <<>>,
     data_end |-> None, raised |-> err]

\* The for loop of _parse_response over entries, from the lists built so far.
RECURSIVE ParseEntries(_, _, _)
ParseEntries(entries, adjusted_days, regular_days) ==
    IF entries = <<>> THEN TempoData(adjusted_days, regular_days, None)
    ELSE LET entry == Head(entries)
             err == EntryError(entry)
         IN  IF err = "none"
             THEN ParseEntries(Tail(entries), Append(adjusted_days, AdjustedDay(entry)),
                               Append(regular_days, RegularDay(entry)))
             ELSE IF HandleEntryError(err) = "skip"
             THEN ParseEntries(Tail(entries), adjusted_days, regular_days)
             ELSE ParseRaised(err)

\* Variant: the list is taken to be in chronological order.
NewestEndOfLast(regular_days) == regular_days[Len(regular_days)].end

\* max(regular_days, key=lambda d: d.end).end
NewestEnd(regular_days) ==
    LET ends == {regular_days[i].end : i \in 1..Len(regular_days)}
    IN  CHOOSE e \in ends : \A f \in ends : f.day <= e.day

\* _parse_response(payload), for the entries of a payload whose top-level
\* structure is well formed.
ParseResponse(entries) ==
    LET parsed == ParseEntries(entries, <<>>, <<>>)
    IN  IF parsed.kind = "error" \/ parsed.regular_days = <<>> THEN parsed
        ELSE [parsed EXCEPT
                !.data_end = Some(DateTime(NewestEnd(parsed.regular_days).day, 0))]

\* A well-formed timestamp text.
Stamp(day, hour) == Some(Timestamp(day, hour, "colon"))

\* Entries as the API sends them: midnight to midnight, one colour, updated
\* during the day.
ValidEntries ==
    {Entry(Stamp(d, 0), Stamp(d + 1, 0), Some(c), Stamp(d, 10)) :
        d \in {1, 2}, c \in {"BLUE", "RED"}}

\* The same entry with one or two members absent, unparsable or off midnight.
OddEntries ==
    LET start == Stamp(1, 0)
        end == Stamp(2, 0)
        value == Some("BLUE")
        updated == Stamp(1, 10)
        garbage == Some(Timestamp(0, 0, "garbage"))
    IN  {Entry(None, end, value, updated),
         Entry(start, None, value, updated),
         Entry(start, end, None, updated),
         Entry(start, end, value, None),
         Entry(garbage, end, value, updated),
         Entry(start, garbage, value, updated),
         Entry(start, end, value, garbage),
         Entry(Some(Timestamp(1, 0, "no_colon")), end, value, updated),
         Entry(Stamp(1, 20), end, value, updated),
         Entry(start, Stamp(2, 20), value, updated),
         Entry(garbage, end, None, updated),
         Entry(None, garbage, value, updated)}

SourceEntries == ValidEntries \cup OddEntries

Payloads == UNION {[1..n -> SourceEntries] : n \in 0..MaxEntries}

InitParse ==
    /\ ClientInit
    /\ \E entries \in Payloads :
         probe = [fn |-> "parse_response", entries |-> entries, done |-> FALSE,
                  out |-> TempoData(<<>>, <<>>, None)]

\* _parse_response(payload) is called.
ApplyParseResponse ==
    /\ probe.fn = "parse_response"
    /\ ~probe.done
    /\ probe' = [probe EXCEPT !.done = TRUE, !.out = ParseResponse(probe.entries)]
    /\ UNCHANGED <<now, cbVars, tokenVars, pc, attempt, last_err, wait, result, attempts,
                   sleeps, token_requests, data_requests, retry_fails, fetch_err,
                   entry_state, faults>>

NextParse == ApplyParseResponse

SpecParse == InitParse /\ [][NextParse]_vars

\* _parse_response has returned a TempoData.
Parsed == probe.fn = "parse_response" /\ probe.done /\ probe.out.kind = "data"

\* The entry has its four required members.
HasAllFields(entry) ==
    /\ entry.start_date # None /\ entry.end_date # None
    /\ entry.value # None /\ entry.updated_date # None

\* The entries of the payload that have their four required members, in order.
CompleteEntries == SelectSeq(probe.entries, HasAllFields)

\* C17: the two lists parse returns have the same length, the number of
\* entries that have their four required members; their k-th elements come
\* from the k-th such entry and carry its colour and its updated timestamp;
\* an entry missing a required member is in neither list.
C17_ListsAligned ==
    Parsed =>
        /\ Len(probe.out.adjusted_days) = Len(CompleteEntries)
        /\ Len(probe.out.regular_days) = Len(CompleteEntries)
        /\ \A k \in 1..Len(CompleteEntries) :
             LET src == CompleteEntries[k]
                 shifted == probe.out.adjusted_days[k]
                 aligned == probe.out.regular_days[k]
             IN  /\ shifted.value = src.value[1] /\ aligned.value = src.value[1]
                 /\ shifted.updated = aligned.updated
                 /\ aligned.updated.day = src.updated_date[1].day
                 /\ aligned.updated.hour = src.updated_date[1].hour
                 /\ aligned.start.day = src.start_date[1].day
                 /\ aligned.end.day = src.end_date[1].day

\* Three entries, the second without its colour: two days in each list.
C17_Witness ==
    /\ Parsed
    /\ Len(probe.entries) = 3 /\ probe.entries[2].value = None
    /\ Len(probe.out.adjusted_days) = 2 /\ Len(probe.out.regular_days) = 2
    /\ probe.out.regular_days[1].value # probe.out.regular_days[2].value

\* C18: whatever is wrong with an entry (a required member absent, a
\* timestamp that does not parse), parse drops the entry, goes on with the
\* others and returns a result.
C18_Original ==
    (probe.fn = "parse_response" /\ probe.done) =>
        /\ probe.out.kind = "data"
        /\ Len(probe.out.regular_days) <= Len(probe.entries)

\* The end days of the date-aligned days parse returned.
AlignedEndDays ==
    {probe.out.regular_days[k].end.day : k \in 1..Len(probe.out.regular_days)}

\* C19: the horizon parse returns is null exactly when no entry was parsed;
\* otherwise it is midnight of the largest end date among the date-aligned
\* days, in whatever order the payload lists the entries.
C19_Horizon ==
    Parsed =>
        /\ probe.out.data_end = None <=> Len(probe.out.regular_days) = 0
        /\ probe.out.data_end # None =>
             /\ probe.out.data_end[1].hour = 0
             /\ probe.out.data_end[1].day \in AlignedEndDays
             /\ \A d \in AlignedEndDays : d <= probe.out.data_end[1].day

\* The day that ends last is listed first.
C19_Witness ==
    /\ Parsed /\ Len(probe.out.regular_days) = 3
    /\ probe.out.regular_days[1].end.day > probe.out.regular_days[2].end.day
    /\ probe.out.regular_days[1].end.day > probe.out.regular_days[3].end.day
    /\ probe.out.data_end = Some(DateTime(probe.out.regular_days[1].end.day, 0))

\* Hours since day 0 of a datetime, and of midnight of a date.
HoursOf(datetime) == 24 * datetime.day + datetime.hour

MidnightHours(date) == 24 * date.day

\* C20 as stated: every hour-shifted day starts and ends at hour 6, at the
\* start (resp. end) date of the date-aligned day of the same entry advanced
\* by 6 hours.
C20_Original ==
    Parsed =>
        \A k \in 1..Len(probe.out.adjusted_days) :
            LET shifted == probe.out.adjusted_days[k]
                aligned == probe.out.regular_days[k]
            IN  /\ shifted.start.hour = 6 /\ shifted.end.hour = 6
                /\ HoursOf(shifted.start) = MidnightHours(aligned.start) + 6
                /\ HoursOf(shifted.end) = MidnightHours(aligned.end) + 6

\* C20, amended: the start (resp. end) of every hour-shifted day is the start
\* (resp. end) timestamp of its entry advanced by 6 hours; when that
\* timestamp is at midnight, the hour-shifted start (resp. end) is at hour 6
\* of the start (resp. end) date of the date-aligned day of the same entry.
C20_ShiftedBySixHours ==
    Parsed =>
        \A k \in 1..Len(probe.out.adjusted_days) :
            LET src == CompleteEntries[k]
                shifted == probe.out.adjusted_days[k]
                aligned == probe.out.regular_days[k]
            IN  /\ HoursOf(shifted.start) = HoursOf(src.start_date[1]) + 6
                /\ HoursOf(shifted.end) = HoursOf(src.end_date[1]) + 6
                /\ shifted.start.hour \in 0..23 /\ shifted.end.hour \in 0..23
                /\ src.start_date[1].hour = 0 =>
                     /\ shifted.start.hour = 6
                     /\ HoursOf(shifted.start) = MidnightHours(aligned.start) + 6
                /\ src.end_date[1].hour = 0 =>
                     /\ shifted.end.hour = 6
                     /\ HoursOf(shifted.end) = MidnightHours(aligned.end) + 6

\* A midnight-to-midnight entry beside one whose start is at 20:00, shifted
\* to 02:00 of the next day.
C20_Witness ==
    /\ Parsed /\ Len(probe.out.adjusted_days) = 2
    /\ probe.out.adjusted_days[1].start = DateTime(1, 6)
    /\ probe.out.adjusted_days[1].end = DateTime(2, 6)
    /\ probe.out.regular_days[1].start = Date(1)
    /\ probe.out.adjusted_days[2].start = DateTime(2, 2)
    /\ probe.out.regular_days[2].start = Date(1)

(***************************************************************************)
(* The poll scheduler, tempo_coordinator.py: compute_wait_time.            *)
(*                                                                         *)
(* localized_now is a wall-clock instant of the France time zone with a    *)
(* sub-second part (datetime.now carries microseconds): a day number, the  *)
(* second of that day and a count of half seconds.  Every datetime of the  *)
(* function carries the tzinfo of localized_now, so each subtraction is    *)
(* the difference of the wall clocks.  A duration is a number of half      *)
(* seconds; the timedelta returned is a whole number of seconds.           *)
(***************************************************************************)
CONFIRM_HOUR == 10

CONFIRM_MIN == 30

CONFIRM_CHECK == 11

SecondsPerDay == 24 * 60 * 60

Moment(day, sec, half) == [day |-> day, sec |-> sec, half |-> half]

\* datetime.replace / datetime.combine: day at hour:minute:second, microsecond 0.
At(day, hour, minute, second) == Moment(day, hour * 60 * 60 + minute * 60 + second, 0)

Halves(m) == 2 * (m.day * SecondsPerDay + m.sec) + m.half

\* timedelta.total_seconds() of a - b, counted in half seconds.
TotalHalves(a, b) == Halves(a) - Halves(b)

\* Variant: the duration is cut down to whole minutes.
IntSecondsOfWholeMinutes(halves) == 60 * (halves \div 120)

\* int(x) of a float of x half seconds: truncation toward zero.
IntSeconds(halves) == IF halves >= 0 THEN halves \div 2 ELSE -((-halves) \div 2)

\* random.randrange(start, stop): any integer of start .. stop - 1.
Randrange(start, stop) == start .. (stop - 1)

\* (data_end - localized_today).days: data_end is a DateTime of the parser.
DiffDays(localized_now, data_end) ==
    (24 * data_end.day + data_end.hour - 24 * localized_now.day) \div 24

WaitNoDataJittered == Randrange((10 * 60 * 5) \div 6, (10 * 60 * 7) \div 6)

\* l.67-68: no data_end, ten minutes, no draw.
WaitNoData == {10 * 60}

WaitAfterConfirmationToday(localized_now) ==
    LET next_call == At(localized_now.day, HOUR_OF_CHANGE, 0, 0)
        wait_secs == IntSeconds(TotalHalves(next_call, localized_now))
    IN  Randrange(wait_secs, wait_secs + 900)

\* l.91-105: tomorrow at HOUR_OF_CHANGE, plus 0 .. 899 seconds.
WaitAfterConfirmation(localized_now) ==
    LET next_call == At(localized_now.day + 1, HOUR_OF_CHANGE, 0, 0)
        wait_secs == IntSeconds(TotalHalves(next_call, localized_now))
    IN  Randrange(wait_secs, wait_secs + 900)

WaitBeforeConfirmationInclusive(localized_now) ==
    LET next_call == At(localized_now.day + 1, CONFIRM_CHECK, 0, 0)
        wait_secs == IntSeconds(TotalHalves(next_call, localized_now))
    IN  Randrange(wait_secs - 900, wait_secs + 901)

\* l.110-126: tomorrow at CONFIRM_CHECK, plus or minus 900 seconds.
WaitBeforeConfirmation(localized_now) ==
    LET next_call == At(localized_now.day + 1, CONFIRM_CHECK, 0, 0)
        wait_secs == IntSeconds(TotalHalves(next_call, localized_now))
    IN  Randrange(wait_secs - 900, wait_secs + 900)

WaitBeforeChangeOnTheHour(localized_now) ==
    LET next_call == At(localized_now.day, HOUR_OF_CHANGE, 0, 0)
        wait_secs == IntSeconds(TotalHalves(next_call, localized_now))
    IN  Randrange(wait_secs, wait_secs + 900)

\* l.135-147: today at HOUR_OF_CHANGE and one second, plus 0 .. 899 seconds.
WaitBeforeChange(localized_now) ==
    LET next_call == At(localized_now.day, HOUR_OF_CHANGE, 0, 1)
        wait_secs == IntSeconds(TotalHalves(next_call, localized_now))
    IN  Randrange(wait_secs, wait_secs + 900)

WaitAfterChangeOneHour ==
    LET wait_secs == 60 * 60
    IN  Randrange((wait_secs * 5) \div 6, (wait_secs * 7) \div 6)

\* l.153-160: thirty minutes, between 5/6 and 7/6 of it.
WaitAfterChange ==
    LET wait_secs == 30 * 60
    IN  Randrange((wait_secs * 5) \div 6, (wait_secs * 7) \div 6)

WaitOtherwiseHalfHour ==
    LET wait_secs == 30 * 60
    IN  Randrange((wait_secs * 5) \div 6, (wait_secs * 7) \div 6)

\* l.167-175: one hour, between 5/6 and 7/6 of it.
WaitOtherwise ==
    LET wait_secs == 60 * 60
    IN  Randrange((wait_secs * 5) \div 6, (wait_secs * 7) \div 6)

\* The branch compute_wait_time takes, l.67-175.
WaitBranch(localized_now, data_end) ==
    IF IsNone(data_end) THEN "no_data"
    ELSE LET days == DiffDays(localized_now, data_end[1])
             ref_confirmation == At(localized_now.day, CONFIRM_HOUR, CONFIRM_MIN, 0)
         IN  IF days = 2
             THEN IF Halves(localized_now) > Halves(ref_confirmation)
                  THEN "after_confirmation" ELSE "before_confirmation"
             ELSE IF days = 1
                  THEN IF localized_now.sec \div (60 * 60) < 6
                       THEN "before_change" ELSE "after_change"
                  ELSE "otherwise"

\* compute_wait_time: the set of whole seconds it can return.
ComputeWaitTime(localized_now, data_end) ==
    LET branch == WaitBranch(localized_now, data_end)
    IN  CASE branch = "no_data" -> WaitNoData
          [] branch = "after_confirmation" -> WaitAfterConfirmation(localized_now)
          [] branch = "before_confirmation" -> WaitBeforeConfirmation(localized_now)
          [] branch = "before_change" -> WaitBeforeChange(localized_now)
          [] branch = "after_change" -> WaitAfterChange
          [] OTHER -> WaitOtherwise

(***************************************************************************)
(* SpecWait: compute_wait_time applied once to a localized_now and a       *)
(* data_end drawn from the instants around its branch boundaries.          *)
(***************************************************************************)
ClockSeconds ==
    {0, HOUR_OF_CHANGE * 60 * 60 - 1, HOUR_OF_CHANGE * 60 * 60,
     CONFIRM_HOUR * 60 * 60 + CONFIRM_MIN * 60 - 1,
     CONFIRM_HOUR * 60 * 60 + CONFIRM_MIN * 60,
     CONFIRM_CHECK * 60 * 60, SecondsPerDay - 1}

WaitNows == {Moment(1, sec, half) : sec \in ClockSeconds, half \in 0..1}

WaitHorizons == {None} \cup {Some(DateTime(1 + days, 0)) : days \in -1..3}

InitWait ==
    /\ ClientInit
    /\ \E localized_now \in WaitNows, data_end \in WaitHorizons :
          probe = [fn |-> "compute_wait_time", localized_now |-> localized_now,
                   data_end |-> data_end, done |-> FALSE, wait_time |-> 0]

ApplyComputeWaitTime ==
    /\ probe.fn = "compute_wait_time"
    /\ ~probe.done
    /\ \E wait_time \in ComputeWaitTime(probe.localized_now, probe.data_end) :
          probe' = [probe EXCEPT !.done = TRUE, !.wait_time = wait_time]
    /\ UNCHANGED <<now, cbVars, tokenVars, pc, attempt, last_err, wait, result,
                   attempts, sleeps, token_requests, data_requests, retry_fails,
                   fetch_err, entry_state, faults>>

NextWait == ApplyComputeWaitTime

SpecWait == InitWait /\ [][NextWait]_vars

Waited == probe.fn = "compute_wait_time" /\ probe.done

\* The horizon's date minus today's date, in days (a horizon exists).
HorizonDiff == probe.data_end[1].day - probe.localized_now.day

PastCheckpoint ==
    Halves(probe.localized_now)
        > Halves(At(probe.localized_now.day, CONFIRM_HOUR, CONFIRM_MIN, 0))

BeforeChangeHour ==
    Halves(probe.localized_now)
        < Halves(At(probe.localized_now.day, HOUR_OF_CHANGE, 0, 0))

\* The exact base wait until the instant target, in half seconds.
BaseHalves(target) == TotalHalves(target, probe.localized_now)

\* C21: with no horizon compute_wait_time returns exactly ten minutes, the
\* only value it can return for that input (no jitter is drawn).
C21_NoHorizonTenMinutes ==
    /\ (Waited /\ IsNone(probe.data_end)) => probe.wait_time = 10 * 60
    /\ \A localized_now \in WaitNows : ComputeWaitTime(localized_now, None) = {10 * 60}

C21_Witness ==
    /\ Waited
    /\ IsNone(probe.data_end)
    /\ probe.localized_now.half = 1
    /\ probe.wait_time = 600

\* C22 as stated: when the horizon is two days ahead and now is past the
\* checkpoint, the wait is the exact base (tomorrow at the change hour minus
\* now) plus a whole number of seconds of 0 .. 899, and is strictly positive.
C22_Original ==
    (Waited /\ ~IsNone(probe.data_end) /\ HorizonDiff = 2 /\ PastCheckpoint)
        => /\ \E j \in 0..899 :
                 2 * probe.wait_time
                     = BaseHalves(At(probe.localized_now.day + 1, HOUR_OF_CHANGE, 0, 0)) + 2 * j
           /\ probe.wait_time > 0

\* C22: when the horizon is two days ahead and now is past the checkpoint,
\* the wait is the base (tomorrow at the change hour minus now) cut down to
\* whole seconds, plus a whole number of seconds of 0 .. 899, and is strictly
\* positive.
C22_AfterCheckpoint ==
    (Waited /\ ~IsNone(probe.data_end) /\ HorizonDiff = 2 /\ PastCheckpoint)
        => /\ \E j \in 0..899 :
                 probe.wait_time
                     = BaseHalves(At(probe.localized_now.day + 1, HOUR_OF_CHANGE, 0, 0)) \div 2 + j
           /\ probe.wait_time > 0

C22_Witness ==
    /\ Waited
    /\ ~IsNone(probe.data_end)
    /\ HorizonDiff = 2
    /\ probe.localized_now = Moment(1, CONFIRM_HOUR * 60 * 60 + CONFIRM_MIN * 60, 1)
    /\ 2 * probe.wait_time + 1
           = BaseHalves(At(probe.localized_now.day + 1, HOUR_OF_CHANGE, 0, 0)) + 2 * 899

\* C23 as stated: when the horizon is two days ahead and now is before the
\* checkpoint, the wait is the exact base (tomorrow at the confirmation-check
\* hour minus now) plus a whole number of seconds of -900 .. 899.
C23_Original ==
    (Waited /\ ~IsNone(probe.data_end) /\ HorizonDiff = 2 /\ ~PastCheckpoint)
        => \E j \in -900..899 :
              2 * probe.wait_time
                  = BaseHalves(At(probe.localized_now.day + 1, CONFIRM_CHECK, 0, 0)) + 2 * j

\* C23: when the horizon is two days ahead and now is not past the
\* checkpoint, the wait is the base (tomorrow at the confirmation-check hour
\* minus now) cut down to whole seconds, plus a whole number of seconds of
\* -900 .. 899.
C23_BeforeCheckpoint ==
    (Waited /\ ~IsNone(probe.data_end) /\ HorizonDiff = 2 /\ ~PastCheckpoint)
        => \E j \in -900..899 :
              probe.wait_time
                  = BaseHalves(At(probe.localized_now.day + 1, CONFIRM_CHECK, 0, 0)) \div 2 + j

C23_Witness ==
    /\ Waited
    /\ ~IsNone(probe.data_end)
    /\ HorizonDiff = 2
    /\ probe.localized_now = Moment(1, HOUR_OF_CHANGE * 60 * 60 - 1, 1)
    /\ 2 * probe.wait_time + 1
           = BaseHalves(At(probe.localized_now.day + 1, CONFIRM_CHECK, 0, 0)) - 2 * 900

\* C24 as stated: when the horizon is one day ahead and now is before the
\* change hour, the wait is the exact base (today at the change hour and one
\* second, minus now) plus a whole number of seconds of 0 .. 899.
C24_Original ==
    (Waited /\ ~IsNone(probe.data_end) /\ HorizonDiff = 1 /\ BeforeChangeHour)
        => \E j \in 0..899 :
              2 * probe.wait_time
                  = BaseHalves(At(probe.localized_now.day, HOUR_OF_CHANGE, 0, 1)) + 2 * j

\* C24: when the horizon is one day ahead and now is before the change hour,
\* the wait is the base (today at the change hour and one second, minus now)
\* cut down to whole seconds, plus a whole number of seconds of 0 .. 899.
C24_BeforeChangeHour ==
    (Waited /\ ~IsNone(probe.data_end) /\ HorizonDiff = 1 /\ BeforeChangeHour)
        => \E j \in 0..899 :
              probe.wait_time
                  = BaseHalves(At(probe.localized_now.day, HOUR_OF_CHANGE, 0, 1)) \div 2 + j

C24_Witness ==
    /\ Waited
    /\ ~IsNone(probe.data_end)
    /\ HorizonDiff = 1
    /\ probe.localized_now = Moment(1, HOUR_OF_CHANGE * 60 * 60 - 1, 1)
    /\ probe.wait_time = 1

\* C25: when the horizon is one day ahead and now is at or after the change
\* hour, the wait is a whole number of seconds between 5/6 and 7/6 of thirty
\* minutes (1500 to 2100), so above zero and below two hours.
C25_AfterChangeHour ==
    (Waited /\ ~IsNone(probe.data_end) /\ HorizonDiff = 1 /\ ~BeforeChangeHour)
        => /\ 6 * probe.wait_time >= 5 * 30 * 60
           /\ 6 * probe.wait_time <= 7 * 30 * 60
           /\ probe.wait_time > 0
           /\ probe.wait_time < 2 * 60 * 60

C25_Witness ==
    /\ Waited
    /\ ~IsNone(probe.data_end)
    /\ HorizonDiff = 1
    /\ probe.localized_now = Moment(1, HOUR_OF_CHANGE * 60 * 60, 0)
    /\ probe.wait_time = 2099

\* C26: for a horizon that is neither one nor two days ahead (today or
\* earlier, or three days ahead and more), the wait is between 5/6 and 7/6 of
\* one hour (3000 to 4200 seconds), whatever the time of day.
C26_Fallback ==
    (Waited /\ ~IsNone(probe.data_end) /\ HorizonDiff \notin {1, 2})
        => /\ 6 * probe.wait_time >= 5 * 60 * 60
           /\ 6 * probe.wait_time <= 7 * 60 * 60

C26_Witness ==
    /\ Waited
    /\ ~IsNone(probe.data_end)
    /\ HorizonDiff = -1
    /\ probe.localized_now.sec < HOUR_OF_CHANGE * 60 * 60
    /\ probe.wait_time = 3000

(***************************************************************************)
(* The consumer, tempo_coordinator.py: TempoCoordinator._async_update_data *)
(* applied to each way async_get_tempo_data can end.                       *)
(***************************************************************************)
\* The errors async_get_tempo_data can raise: those of the data request, of
\* the token request, of the circuit gate and of the payload parser.
FetchErrors ==
    ({FetchData(o) : o \in DataOutcomes} \ {NoErr})
    \cup {RTETempoAuthError("Token request failed"),
          RTETempoConnectionError(CircuitOpenMessage),
          Exc(ValueError, None, None, "strptime")}

FetchEnds == {Raised(err) : err \in FetchErrors} \cup {Returned}

\* exceptions.py: the classes deriving from RTETempoError, itself included.
IsRTETempoError(err) ==
    err.kind \in {BaseError, AuthError, ConnectionError, ClientError,
                  RateLimitError, ServerError}

UpdateIntervals == {60, 10 * 60, 60 * 60}

\* What an update raised, the update_interval it left and the number of
\* calls of compute_wait_time it made.
Update(raised, update_interval, wait_calls) ==
    [raised |-> raised, update_interval |-> update_interval, wait_calls |-> wait_calls]

\* l.46-49: the window asked of the client, midnight to midnight.
FetchWindow(localized_now) ==
    [start |-> DateTime(localized_now.day - 364, 0),
     end |-> DateTime(localized_now.day + 2, 0)]

\* Variant: the instant is read again when the client call has returned.
WaitArgumentAtReturn(localized_now, returned_at) == returned_at

\* l.42, l.55: the instant handed to compute_wait_time is the one read
\* before the client call was awaited.
WaitArgument(localized_now, returned_at) == localized_now

\* l.51: except RTETempoError as err.
ExceptRTETempoError(err) == IsRTETempoError(err)

\* _async_update_data, l.40-56: what it raises and the update_interval it
\* leaves, for the end of the client call and the interval in force before.
AsyncUpdateData(end, localized_now, returned_at, data_end, update_interval) ==
    IF end.kind = "error"
    THEN IF ExceptRTETempoError(end.err)
         THEN {Update("UpdateFailed", 10 * 60, 0)}
         ELSE {Update(end.err.kind, update_interval, 0)}
    ELSE {Update("none", wait_time, 1) :
             wait_time \in ComputeWaitTime(WaitArgument(localized_now, returned_at), data_end)}

UpdateNows ==
    {Moment(1, sec, half) :
        sec \in {HOUR_OF_CHANGE * 60 * 60 - 1, HOUR_OF_CHANGE * 60 * 60}, half \in 0..1}

\* Seconds the awaited client call can take.
CallDurations == {0, 2}

UpdateHorizons == {None, Some(DateTime(2, 0))}

InitUpdate ==
    /\ ClientInit
    /\ \E end \in FetchEnds, localized_now \in UpdateNows, took \in CallDurations,
          data_end \in UpdateHorizons, update_interval \in UpdateIntervals :
          probe = [fn |-> "_async_update_data", end |-> end,
                   localized_now |-> localized_now,
                   returned_at |-> [localized_now EXCEPT !.sec = @ + took],
                   window |-> FetchWindow(localized_now),
                   data_end |-> IF end = Returned THEN data_end ELSE None,
                   before |-> update_interval, done |-> FALSE,
                   update |-> Update("none", update_interval, 0)]

ApplyAsyncUpdateData ==
    /\ probe.fn = "_async_update_data"
    /\ ~probe.done
    /\ \E update \in AsyncUpdateData(probe.end, probe.localized_now, probe.returned_at,
                                     probe.data_end, probe.before) :
          probe' = [probe EXCEPT !.done = TRUE, !.update = update]
    /\ UNCHANGED <<now, cbVars, tokenVars, pc, attempt, last_err, wait, result,
                   attempts, sleeps, token_requests, data_requests, retry_fails,
                   fetch_err, entry_state, faults>>

NextUpdate == ApplyAsyncUpdateData

SpecUpdate == InitUpdate /\ [][NextUpdate]_vars

Updated == probe.fn = "_async_update_data" /\ probe.done

\* C27: every error that ends the client call of an update - typed, circuit
\* open, generic, or raised by the parser - leaves _async_update_data as an
\* update failure with the poll interval set to ten minutes.
C27_Original ==
    (Updated /\ probe.end.kind = "error")
        => /\ probe.update.raised = "UpdateFailed"
           /\ probe.update.update_interval = 10 * 60

\* A step in which an attempt of async_get_tempo_data fails: the awaited
\* token or data request ends the attempt with an error, and the call goes
\* to its backoff sleep or ends.
FailedAttempt ==
    /\ pc \in {"token", "request"}
    /\ pc' \in {"sleep", "idle"}
    /\ result'.kind # "data"

\* C28: every failed attempt of a call that passed the gate, whatever its
\* error (the generic error for an unexpected status included), adds one to
\* the failure count and sets the last failure time to the time of that
\* attempt, so a call ending in error has counted each of its failed attempts
\* and holds the time of the last.
C28_Original ==
    [][FailedAttempt =>
          /\ cb_failure_count' = cb_failure_count + 1
          /\ cb_last_failure' = now]_vars

\* C29: the gate is evaluated once per call, before its first attempt, and
\* never between retries: only the step that starts a call rejects it or
\* moves the breaker to half-open; a failed attempt that leaves retries goes
\* to its backoff sleep even when it opens the breaker; and the step ending
\* a sleep sends the next attempt with the breaker left as it is, open or
\* not.
C29_GateOncePerCall ==
    [][/\ (result' # result /\ result'.kind = "error"
              /\ result'.err = RTETempoConnectionError(CircuitOpenMessage))
          => pc = "idle"
       /\ (cb_state' = HALF_OPEN /\ cb_state # HALF_OPEN) => pc = "idle"
       /\ (FailedAttempt /\ fetch_err'.kind \in RetryableKinds /\ SleepsAfter(attempt))
          => pc' = "sleep"
       /\ (pc = "sleep" /\ pc' # "sleep")
          => /\ pc' \in {"token", "request"}
             /\ attempts' = attempts + 1
             /\ token_requests' + data_requests' = token_requests + data_requests + 1
             /\ UNCHANGED cbVars]_vars

C29_Witness ==
    /\ pc \in {"token", "request"}
    /\ entry_state = CLOSED
    /\ cb_state = OPEN
    /\ cb_failure_count = CB_FAILURE_THRESHOLD
    /\ attempts = MAX_RETRIES
    /\ now - cb_last_failure < CB_RECOVERY_TIMEOUT

\* The token requests sent by all callers so far.
RECURSIVE SumRequests(_)
SumRequests(cs) ==
    IF cs = {} THEN 0
    ELSE LET c == CHOOSE d \in cs : TRUE
         IN  probe.call[c].requests + SumRequests(cs \ {c})

\* The first token request gave a token announced for more than 60 s, and
\* that token has not expired yet.
FirstTokenStillValid ==
    /\ probe.fn = "get_access_token"
    /\ probe.first.ok
    /\ probe.first.expires_in > TOKEN_EXPIRY_MARGIN
    /\ now < probe.first.at + probe.first.expires_in - TOKEN_EXPIRY_MARGIN

\* The callers that called with no cached token and have returned.
StartedWithoutToken ==
    {c \in Callers : probe.pc[c] = "done" /\ probe.call[c].cache_token = None}

\* C30: when callers start concurrently with no cached token and the first
\* token request succeeds with expires_in above 60, then, as long as that
\* token is unexpired, one token request has been made in total: each caller
\* that waited for the lock found the token valid when it got the lock and
\* returned the first caller's token without a request of its own.
C30_SingleFetchForWaiters ==
    FirstTokenStillValid =>
        /\ SumRequests(Callers) = 1
        /\ probe.call[probe.first.by].requests = 1
        /\ \A c \in StartedWithoutToken :
              /\ probe.call[c].result.kind = "token"
              /\ probe.call[c].result.token = probe.call[probe.first.by].result.token
              /\ c # probe.first.by =>
                    /\ probe.call[c].requests = 0
                    /\ probe.call[c].result.source = "cache"
                    /\ probe.call[c].overlap

\* All callers started before the first answer; the two that waited for the
\* lock have returned the first caller's token.
C30_Witness ==
    /\ FirstTokenStillValid
    /\ StartedWithoutToken = Callers
    /\ NumCallers >= 2
    /\ \A c \in Callers \ {probe.first.by} : probe.call[c].result.source = "cache"
    /\ SumRequests(Callers) = 1
    /\ probe.first.expires_in = CB_RECOVERY_TIMEOUT + TOKEN_EXPIRY_MARGIN

\* The wall-clock target of the branch taken, for the two branches that wait
\* for one with a jitter of 0 .. 899 seconds.
WaitsForTarget ==
    /\ Waited
    /\ ~IsNone(probe.data_end)
    /\ \/ HorizonDiff = 2 /\ PastCheckpoint
       \/ HorizonDiff = 1 /\ BeforeChangeHour

WaitTarget ==
    IF HorizonDiff = 2
    THEN At(probe.localized_now.day + 1, HOUR_OF_CHANGE, 0, 0)
    ELSE At(probe.localized_now.day, HOUR_OF_CHANGE, 0, 1)

\* C33 as stated: in the two branches that wait for a wall-clock target with
\* a jitter of 0 .. 899 seconds, now plus the wait returned is never earlier
\* than the target, sub-second parts of now included.
C33_Original ==
    WaitsForTarget
        => Halves(probe.localized_now) + 2 * probe.wait_time >= Halves(WaitTarget)

\* C33: in those two branches the base is target - now cut down to whole
\* seconds, so now plus the wait returned is later than one second before the
\* target, and is not earlier than the target when now has no sub-second part.
C33_WithinOneSecondOfTarget ==
    WaitsForTarget
        => /\ Halves(probe.localized_now) + 2 * probe.wait_time > Halves(WaitTarget) - 2
           /\ probe.localized_now.half = 0
                 => Halves(probe.localized_now) + 2 * probe.wait_time >= Halves(WaitTarget)

\* The poll falls half a second before the target: tomorrow 05:59:59.5.
C33_Witness ==
    /\ WaitsForTarget
    /\ HorizonDiff = 2
    /\ probe.localized_now.half = 1
    /\ Halves(probe.localized_now) + 2 * probe.wait_time = Halves(WaitTarget) - 1

\* C34: for every now, every horizon (none, or any number of days from
\* today) and every jitter drawn, the wait returned is strictly positive.
C34_StrictlyPositive == Waited => probe.wait_time > 0

\* The shortest wait: one second, half a second before the change hour.
C34_Witness ==
    /\ Waited
    /\ ~IsNone(probe.data_end)
    /\ probe.localized_now = Moment(1, HOUR_OF_CHANGE * 60 * 60 - 1, 1)
    /\ HorizonDiff = 1
    /\ probe.wait_time = 1
    /\ \A wait_time \in ComputeWaitTime(probe.localized_now, probe.data_end) :
          wait_time >= probe.wait_time

\* The awaited data request is answered 200 with a payload that lacks the
\* results member: _parse_response raises the lookup error.
StructureLookupFails ==
    /\ pc = "request"
    /\ fetch_err'.kind = KeyError
    /\ result' # result

\* C32: a 200 answer whose payload lacks the expected top-level structure
\* ends the call on that attempt with the lookup error: no retry, no sleep,
\* no further request, and the breaker's state, failure count and last
\* failure time are left as they were before the attempt.
C32_LookupErrorPropagates ==
    [][StructureLookupFails =>
          /\ pc' = "idle"
          /\ result' = Raised(Exc(KeyError, None, None, "tempo_like_calendars"))
          /\ UNCHANGED <<cbVars, attempts, sleeps, token_requests, data_requests>>]_vars

\* The lookup error ended the first attempt of a half-open probe whose
\* earlier failures are still counted: the breaker stays half-open.
C32_Witness ==
    /\ pc = "idle"
    /\ result = Raised(Exc(KeyError, None, None, "tempo_like_calendars"))
    /\ attempts = 1
    /\ sleeps = 0
    /\ cb_state = HALF_OPEN
    /\ cb_failure_count = CB_FAILURE_THRESHOLD

\* C35: an update that got its data sets update_interval to a value of
\* compute_wait_time for the instant read at the start of the update (not
\* the instant the client call returned) and the horizon of the data; an
\* update whose client call failed never calls compute_wait_time; and the
\* window asked of the client runs from midnight of the start's day minus 364
\* days to that midnight plus 2 days.
C35_OneCycleThenDelay ==
    Updated =>
        /\ probe.window.start = DateTime(probe.localized_now.day - 364, 0)
        /\ probe.window.end = DateTime(probe.localized_now.day + 2, 0)
        /\ probe.end.kind = "error" => probe.update.wait_calls = 0
        /\ probe.end.kind = "data" =>
              /\ probe.update.wait_calls = 1
              /\ probe.update.raised = "none"
              /\ probe.update.update_interval
                     \in ComputeWaitTime(probe.localized_now, probe.data_end)

\* The call started half a second before the change hour and returned after
\* it: the interval is the one second (plus no jitter) of the start's branch.
C35_Witness ==
    /\ Updated
    /\ probe.end.kind = "data"
    /\ probe.localized_now = Moment(1, HOUR_OF_CHANGE * 60 * 60 - 1, 1)
    /\ probe.returned_at = Moment(1, HOUR_OF_CHANGE * 60 * 60 + 1, 1)
    /\ probe.data_end = Some(DateTime(2, 0))
    /\ probe.update.update_interval = 1

(***************************************************************************)
(* The timestamp texts of the API, client.py: the start_date / end_date    *)
(* parameters _async_fetch builds and parse_rte_api_datetime, character by *)
(* character.  A text is a sequence of one-character strings; an aware     *)
(* datetime is its calendar fields and its UTC offset in minutes.          *)
(***************************************************************************)
DecimalDigits == <<"0", "1", "2", "3", "4", "5", "6", "7", "8", "9">>

\* The value of a digit character, -1 for any other character.
DecimalValue(c) ==
    IF \E i \in 1..10 : DecimalDigits[i] = c
    THEN (CHOOSE i \in 1..10 : DecimalDigits[i] = c) - 1
    ELSE -1

\* n written with width digits, zero padded.
RECURSIVE Padded(_, _)
Padded(n, width) ==
    IF width = 0 THEN <<>>
    ELSE Padded(n \div 10, width - 1) \o <<DecimalDigits[(n % 10) + 1]>>

\* The number a text of digits spells, -1 when a character is no digit.
RECURSIVE Number(_)
Number(s) ==
    IF s = <<>> THEN 0
    ELSE LET head == Number(SubSeq(s, 1, Len(s) - 1))
             last == DecimalValue(s[Len(s)])
         IN  IF head < 0 \/ last < 0 THEN -1 ELSE 10 * head + last

AwareDateTime(year, month, day, hour, minute, second, utcoffset) ==
    [year |-> year, month |-> month, day |-> day, hour |-> hour,
     minute |-> minute, second |-> second, utcoffset |-> utcoffset]

\* strftime("%z"): the sign, the hours and the minutes of the offset.
OffsetText(utcoffset) ==
    LET size == IF utcoffset < 0 THEN -utcoffset ELSE utcoffset
    IN  <<IF utcoffset < 0 THEN "-" ELSE "+">>
            \o Padded(size \div 60, 2) \o Padded(size % 60, 2)

\* start.strftime(API_DATE_FORMAT), the format being %Y-%m-%dT%H:%M:%S%z.
Strftime(d) ==
    Padded(d.year, 4) \o <<"-">> \o Padded(d.month, 2) \o <<"-">> \o Padded(d.day, 2)
        \o <<"T">> \o Padded(d.hour, 2) \o <<":">> \o Padded(d.minute, 2)
        \o <<":">> \o Padded(d.second, 2) \o OffsetText(d.utcoffset)

\* Variant: the colon is put before the last three characters.
OffsetColonInsertedEarly(s) ==
    SubSeq(s, 1, Len(s) - 3) \o <<":">> \o SubSeq(s, Len(s) - 2, Len(s))

\* l.141-142: start_str[:-2] + ":" + start_str[-2:].
OffsetColonInserted(s) ==
    SubSeq(s, 1, Len(s) - 2) \o <<":">> \o SubSeq(s, Len(s) - 1, Len(s))

\* l.240: date[:-3] + date[-2:].
OffsetColonStripped(date) ==
    SubSeq(date, 1, Len(date) - 3) \o SubSeq(date, Len(date) - 1, Len(date))

\* The field of a text between two positions, as a number.
Field(s, from, to) == Number(SubSeq(s, from, to))

\* datetime.strptime(date, API_DATE_FORMAT) of a text of zero-padded fields
\* with an offset written +HHMM: None stands for ValueError.
Strptime(date) ==
    IF /\ Len(date) = 24
       /\ date[5] = "-" /\ date[8] = "-" /\ date[11] = "T"
       /\ date[14] = ":" /\ date[17] = ":" /\ date[20] \in {"+", "-"}
       /\ Field(date, 1, 4) >= 1
       /\ Field(date, 6, 7) \in 1..12
       /\ Field(date, 9, 10) \in 1..31
       /\ Field(date, 12, 13) \in 0..23
       /\ Field(date, 15, 16) \in 0..59
       /\ Field(date, 18, 19) \in 0..59
       /\ Field(date, 21, 22) \in 0..23
       /\ Field(date, 23, 24) \in 0..59
    THEN LET size == 60 * Field(date, 21, 22) + Field(date, 23, 24)
         IN  Some(AwareDateTime(Field(date, 1, 4), Field(date, 6, 7), Field(date, 9, 10),
                                Field(date, 12, 13), Field(date, 15, 16), Field(date, 18, 19),
                                IF date[20] = "-" THEN -size ELSE size))
    ELSE None

\* The instants formatted: days and times of day of both ends of a month, at
\* the offsets of France, of UTC, of a local mean time and of zones west and
\* east with a half hour.
FormattedInstants ==
    {AwareDateTime(2024, month, day, hour, minute, second, utcoffset) :
        month \in {1, 12}, day \in {1, 31}, hour \in {0, 23}, minute \in {0, 30},
        second \in {0, 59}, utcoffset \in {60, 120, 0, 9, -300, 330, -210}}

InitFormat ==
    /\ ClientInit
    /\ \E d \in FormattedInstants :
          probe = [fn |-> "start_date", instant |-> d, done |-> FALSE,
                   param |-> <<>>, stripped |-> <<>>, parsed |-> None]

\* The instant is formatted into the request parameter, and that text is
\* parsed as a timestamp of the response is.
ApplyFormatThenParse ==
    /\ probe.fn = "start_date"
    /\ ~probe.done
    /\ LET param == OffsetColonInserted(Strftime(probe.instant))
       IN  probe' = [probe EXCEPT !.done = TRUE, !.param = param,
                                  !.stripped = OffsetColonStripped(param),
                                  !.parsed = Strptime(OffsetColonStripped(param))]
    /\ UNCHANGED <<now, cbVars, tokenVars, pc, attempt, last_err, wait, result,
                   attempts, sleeps, token_requests, data_requests, retry_fails,
                   fetch_err, entry_state, faults>>

NextFormat == ApplyFormatThenParse

SpecFormat == InitFormat /\ [][NextFormat]_vars

Formatted == probe.fn = "start_date" /\ probe.done

\* C36: for every text the outbound formatter produces (the offset colon put
\* before the last two characters), stripping the colon as the parser does
\* gives back the formatted text without the colon, and parsing that text
\* gives the instant that was formatted.
C36_OffsetColonRoundTrip ==
    Formatted =>
        /\ probe.param[Len(probe.param) - 2] = ":"
        /\ Len(probe.param) = Len(Strftime(probe.instant)) + 1
        /\ probe.stripped = Strftime(probe.instant)
        /\ probe.parsed = Some(probe.instant)

\* 2024-12-31T23:30:59-03:30 went out and came back.
C36_Witness ==
    /\ Formatted
    /\ probe.param = <<"2", "0", "2", "4", "-", "1", "2", "-", "3", "1", "T", "2", "3",
                       ":", "3", "0", ":", "5", "9", "-", "0", "3", ":", "3", "0">>
    /\ probe.parsed = Some(AwareDateTime(2024, 12, 31, 23, 30, 59, -210))

\* C37: an attempt that fails with a retryable or a non-retryable error
\* while the breaker is half-open sets it open and sets the last failure time
\* to the time of that failure; a later call passes the open gate only when
\* 300 s have gone by since then; and the half-open call is a retrying fetch:
\* after a retryable failure with attempts left it sleeps and tries again.
C37_HalfOpenFailureReopens ==
    [][/\ (FailedAttempt /\ cb_state = HALF_OPEN
              /\ fetch_err'.kind \in RetryableKinds \cup NonRetryableKinds)
          => /\ cb_state' = OPEN
             /\ cb_last_failure' = now
             /\ (fetch_err'.kind \in RetryableKinds /\ SleepsAfter(attempt)) => pc' = "sleep"
             /\ fetch_err'.kind \in NonRetryableKinds => pc' = "idle"
       /\ (pc = "idle" /\ cb_state = OPEN /\ pc' # "idle")
          => now - cb_last_failure >= CB_RECOVERY_TIMEOUT
       /\ (pc = "sleep" /\ pc' # "sleep" /\ entry_state = OPEN)
          => pc' \in {"token", "request"} /\ attempts' = attempts + 1]_vars

\* The second attempt of a half-open call is in flight: its first attempt
\* failed, reopened the breaker and stamped the failure a backoff ago.
C37_Witness ==
    /\ pc \in {"token", "request"}
    /\ entry_state = OPEN
    /\ attempts = 2
    /\ cb_state = OPEN
    /\ cb_failure_count = CB_FAILURE_THRESHOLD + 1
    /\ cb_last_failure >= CB_RECOVERY_TIMEOUT
    /\ now - cb_last_failure < CB_RECOVERY_TIMEOUT

\* Caller c's token request ends in an error in this step.
TokenFetchFails(c) ==
    /\ probe.pc[c] = "post"
    /\ probe'.pc[c] = "done"
    /\ probe'.call[c].result.kind = "error"

\* Caller c, which waited for the lock, gets it in this step.
WaiterGetsLock(c) == probe.pc[c] = "wait" /\ probe'.pc[c] # "wait"

\* C38: a token request that fails leaves the cached token and its expiry
\* as they were and releases the lock; a caller that waited for the lock and
\* finds no valid token when it gets it sends a token request of its own, so
\* no caller ends in an error without having sent its own request.
C38_FailureNotShared ==
    [][probe.fn = "get_access_token" =>
          \A c \in Callers :
              /\ TokenFetchFails(c) =>
                    /\ UNCHANGED <<access_token, token_expiry>>
                    /\ probe.lock = c /\ probe'.lock = 0
              /\ (WaiterGetsLock(c) /\ ~(access_token # None /\ now < token_expiry)) =>
                    /\ probe'.pc[c] = "post"
                    /\ probe'.lock = c
                    /\ probe'.call[c].requests = probe.call[c].requests + 1
              /\ (probe.pc[c] # "done" /\ probe'.pc[c] = "done"
                     /\ probe'.call[c].result.kind = "error") =>
                    probe'.call[c].requests = 1]_vars

\* A token was cached and has expired; the next caller's request failed and
\* so did, in its turn, the request of the caller that waited behind it.
C38_Witness ==
    /\ probe.fn = "get_access_token"
    /\ access_token # None
    /\ now >= token_expiry
    /\ \E c, d \in Callers :
          /\ c # d
          /\ probe.pc[c] = "done" /\ probe.pc[d] = "done"
          /\ probe.call[c].result.kind = "error" /\ probe.call[d].result.kind = "error"
          /\ probe.call[c].overlap /\ probe.call[d].overlap
          /\ probe.call[c].requests = 1 /\ probe.call[d].requests = 1

(***************************************************************************)
(* SpecShortToken: the token manager in front of an endpoint that only     *)
(* announces a lifetime no longer than the safety margin.                  *)
(***************************************************************************)
InitShortToken ==
    /\ ClientInit
    /\ probe = [TokenManagerInit EXCEPT !.lifetimes = ShortExpiresInValues]

SpecShortToken == InitShortToken /\ [][NextToken]_vars

\* C39: when the endpoint announces expires_in of 60 or less, the expiry
\* stored with the token is not later than the time of the fetch, so no call
\* is ever served from the cache: every call that has ended, the callers that
\* waited for the lock included, sent its own token request.
C39_ShortLivedNeverCached ==
    /\ (probe.fn = "get_access_token" /\ access_token # None) =>
          /\ probe.fetched.expires_in <= TOKEN_EXPIRY_MARGIN
          /\ token_expiry <= probe.fetched.at
    /\ \A k \in EndedTokenCalls :
          /\ k.requests = 1
          /\ k.result.kind = "token" => k.result.source = "fetch"

\* A token announced for exactly 60 s was fetched; a caller that waited for
\* the lock meanwhile and a caller that called at the same instant, after the
\* token was stored, each fetched again.
C39_Witness ==
    /\ probe.fn = "get_access_token"
    /\ \A c \in Callers : probe.pc[c] = "done" /\ probe.call[c].result.kind = "token"
    /\ \E c, d \in Callers :
          /\ probe.call[c].overlap /\ probe.call[c].cache_token = None
          /\ probe.call[c].result.at = probe.call[probe.first.by].result.at
          /\ c # probe.first.by
          /\ probe.call[d].cache_token # None
          /\ probe.call[d].cache_expiry = probe.call[d].at
          /\ probe.call[d].requests = 1

\* The attempt fails in this step while it obtains its token.
TokenAttemptFails == FailedAttempt /\ pc = "token"

\* C40: an error the token manager raises while an attempt obtains its
\* token is handled as an error of the data request is: a connection error
\* counts as one breaker failure and is retried after the backoff sleep (or
\* ends the call when it was the last attempt); an authentication error, a
\* non-200 answer of the token endpoint such as a 5xx included, counts as one
\* breaker failure and ends the call at once, with no sleep and no retry.
C40_TokenErrorsHandledAlike ==
    [][(TokenAttemptFails /\ fetch_err'.kind \in {ConnectionError, AuthError}) =>
          /\ cb_failure_count' = cb_failure_count + 1
          /\ cb_last_failure' = now
          /\ data_requests' = data_requests
          /\ fetch_err'.kind = ConnectionError =>
                IF SleepsAfter(attempt)
                THEN /\ pc' = "sleep"
                     /\ wait' = BACKOFF_BASE * TwoToThe(attempt)
                     /\ sleeps' = sleeps + 1
                ELSE pc' = "idle" /\ result' = Raised(fetch_err')
          /\ fetch_err'.kind = AuthError =>
                /\ pc' = "idle"
                /\ result' = Raised(fetch_err')
                /\ UNCHANGED <<sleeps, attempts, token_requests>>]_vars

\* The first attempt lost its token request to a transport error and was
\* retried; the second got HTTP 500 from the token endpoint and ended the
\* call: two breaker failures, no data request.
C40_Witness ==
    /\ pc = "idle"
    /\ result = Raised(RTETempoAuthError("Token request failed"))
    /\ attempts = 2
    /\ sleeps = 1
    /\ token_requests = 2
    /\ data_requests = 0
    /\ entry_state = CLOSED
    /\ cb_failure_count = 2
    /\ cb_last_failure = now

(***************************************************************************)
(* Cancellation: the host cancels a caller of async_get_access_token while *)
(* it is suspended, waiting for the lock or awaiting the token endpoint.   *)
(* asyncio raises CancelledError at the await; no except clause of         *)
(* auth.py names it.                                                       *)
(***************************************************************************)
TokenCancelled == [NoToken EXCEPT !.kind = "cancelled"]

\* Variant: the lock stays with the cancelled caller.
LockKeptOnExit(lock, c) == lock

\* async with self._lock: leaving the block, by an exception too, releases
\* the lock its caller holds.
LockReleasedOnExit(lock, c) == IF lock = c THEN 0 ELSE lock

\* Lock.acquire cancelled: the caller leaves the queue of waiters.
RECURSIVE WithoutWaiter(_, _)
WithoutWaiter(waiters, c) ==
    IF waiters = <<>> THEN <<>>
    ELSE IF Head(waiters) = c THEN WithoutWaiter(Tail(waiters), c)
    ELSE <<Head(waiters)>> \o WithoutWaiter(Tail(waiters), c)

CancelTokenCall(c) ==
    /\ probe.pc[c] \in {"wait", "post"}
    /\ probe' = [probe EXCEPT !.pc[c] = "done",
                              !.lock = LockReleasedOnExit(@, c),
                              !.waiters = WithoutWaiter(@, c),
                              !.call[c].result = TokenCancelled]
    /\ TokenFrame
    /\ UNCHANGED <<now, tokenVars>>

\* The endpoint announces one lifetime here.
InitCancel ==
    /\ ClientInit
    /\ probe = [TokenManagerInit EXCEPT
                  !.lifetimes = {Some(JInt(CB_RECOVERY_TIMEOUT + TOKEN_EXPIRY_MARGIN))}]

NextCancel ==
    \/ NextToken
    \/ \E c \in Callers : CancelTokenCall(c)

SpecCancel == InitCancel /\ [][NextCancel]_vars

\* Caller c is cancelled in this step.
Cancelled(c) ==
    /\ probe.pc[c] \in {"wait", "post"}
    /\ probe'.call[c].result.kind = "cancelled"

CancelledCall == [kind |-> "cancelled", err |-> NoErr]

\* The host cancels async_get_tempo_data while it awaits the token endpoint,
\* the data endpoint or the backoff sleep. CancelledError is no Exception:
\* neither except clause of the retry loop takes it, so the breaker is not
\* told and nothing is assigned.
CancelFetch ==
    /\ pc \in {"token", "request", "sleep"}
    /\ Finish(CancelledCall)
    /\ UNCHANGED <<now, cbVars, tokenVars, attempts, sleeps, token_requests,
                   data_requests, retry_fails, fetch_err, entry_state, faults, probe>>

NextFetchCancel == Next \/ CancelFetch

SpecFetchCancel == Init /\ [][NextFetchCancel]_vars

\* Under SpecFetchCancel: a cancelled fetch returns no data and leaves the
\* cached token, its expiry and the breaker as they were at the suspension.
CancelledFetchLeavesNoResult ==
    [][(pc # "idle" /\ result'.kind = "cancelled") =>
          /\ pc' = "idle"
          /\ UNCHANGED <<tokenVars, cbVars>>]_vars

\* A call was cancelled during its backoff sleep, after a failed attempt.
CancelledFetchWitness ==
    /\ pc = "idle"
    /\ result = CancelledCall
    /\ sleeps = 1
    /\ cb_failure_count > 0

====
